---------------------------- MODULE Spec2Model ----------------------------
(***************************************************************************)
(* Model of the vwxpush envelope security layer (package vwxpush):         *)
(* PKCS#7 padding, AES-CBC envelope encryption, frame layout, SHA-1        *)
(* signature verification and the HandlePushMessage dispatcher.            *)
(*                                                                         *)
(* Conventions.  A Go []byte or string is a sequence of byte values        *)
(* 0..255 (a string literal is written as its ASCII codes).  A nil slice   *)
(* is distinguished from an empty one by the record field `isNil`.         *)
(***************************************************************************)
EXTENDS Integers, Sequences, FiniteSets, TLC

VARIABLES
    padPc,      \* position of the padding harness: "init", "padded", "roundtrip", "unpadded"
    padData,    \* input byte slice
    padBlock,   \* block size handed to pkcs7Pad
    padOut,     \* result of pkcs7Pad(padData, padBlock)
    unpadOut,   \* result of pkcs7Unpad
    receiver,   \* the WxPushReceiver: Token, EncodingAESKey, SecurityMode, DataType
    intBits,    \* width of Go's int in the build: 32 or 64
    codecPc,    \* position of the codec harness: "init", "encrypted", "encrypted twice", "roundtrip", "decrypted"
    encAppID,   \* appID handed to encryptResponse
    encData,    \* responseData handed to encryptResponse
    encOut,     \* result of encryptResponse: [err, bytes]
    decIn,      \* encryptedData handed to decryptMessage
    decOut,     \* outcome of decryptMessage: [panicked, err, message, appid]
    encAgain,   \* result of a second encryptResponse call with the same arguments
    call,       \* the HandlePushMessage call in progress
    sigPc,      \* position of the signature harness: "init", "verified", "tampered"
    sigSent,    \* the parameters the signature was computed over
    sigArgs,    \* the parameters handed to verifySignature / verifyMsgSignature
    sigGiven,   \* the signature handed to them
    sigOut,     \* their results: [plain, msg]
    call2,      \* a second HandlePushMessage call in progress on the same receiver
    log,        \* the outcomes of the calls completed earlier, oldest first
    phonePc,    \* position of the DecryptPhoneNumber harness: "init", "returned"
    phoneIn,    \* its arguments: [sessionKey, encryptedData, iv]
    phoneOut,   \* its outcome: [panicked, info, err]
    client,     \* the vwxa Client: [hasCache], whether a cacheProvider is set
    cache,      \* what the cache provider holds under cacheKeyAccessToken(): [value, expire]
    tokLast,    \* the last GetAccessToken call: [kind, token, err, contacted, setFailed]
    issued,     \* the token responses with errcode 0 received so far: [token, expires_in]
    tokCalls    \* number of GetAccessToken calls made

padVars == <<padPc, padData, padBlock, padOut, unpadOut>>

cfgVars == <<receiver, intBits>>

codecVars == <<codecPc, encAppID, encData, encOut, decIn, decOut, encAgain>>

pushVars == <<call>>

sigVars == <<sigPc, sigSent, sigArgs, sigGiven, sigOut>>

multiVars == <<call2, log>>

phoneVars == <<phonePc, phoneIn, phoneOut>>

tokenVars == <<client, cache, tokLast, issued, tokCalls>>

vars == <<padVars, cfgVars, codecVars, pushVars, sigVars, multiVars, phoneVars, tokenVars>>

-----------------------------------------------------------------------------
(* Bounds of the model                                                     *)

\* longest enumerated input slice of the padding harness
MaxPadLen == 3

\* number of times a completed request is submitted again
MaxReplays == 2

\* number of GetAccessToken calls in a run
MaxTokenCalls == 3

\* longest enumerated payload handed to encryptResponse
MaxPayloadLen == 2

-----------------------------------------------------------------------------
(* Bytes                                                                   *)

\* Go's byte(x) conversion of an int: truncation to 8 bits
ToByte(x) == x % 256

Last(s) == s[Len(s)]

\* n copies of the value b
Repeat(b, n) == [i \in 1..n |-> b]

\* all sequences over S of length at most n
SeqsUpTo(S, n) == UNION {[1..k -> S] : k \in 0..n}

-----------------------------------------------------------------------------
(* PKCS#7 padding (util.go)                                                *)

\* a nil []byte
NilSlice == [isNil |-> TRUE, bytes |-> <<>>]

\* a non-nil []byte holding bs
Slice(bs) == [isNil |-> FALSE, bytes |-> bs]

\* mutant: no extra block when the data is already aligned
pkcs7PadNoFullBlock(data, blockSize) ==
    LET padding == (blockSize - (Len(data) % blockSize)) % blockSize
    IN  data \o Repeat(ToByte(padding), padding)

\* mutant: always appends a whole block
pkcs7PadWholeBlock(data, blockSize) ==
    data \o Repeat(ToByte(blockSize), blockSize)

\* pkcs7Pad: padding := blockSize - len(data)%blockSize bytes, each byte(padding)
pkcs7Pad(data, blockSize) ==
    LET padding == blockSize - (Len(data) % blockSize)
    IN  data \o Repeat(ToByte(padding), padding)

\* mutant: trusts the last byte without checking the other padding bytes
pkcs7UnpadLastByteOnly(data) ==
    LET length == Len(data)
    IN  IF length = 0 THEN NilSlice
        ELSE LET padding == data[length]
             IN  IF padding > length THEN NilSlice
                 ELSE Slice(SubSeq(data, 1, length - padding))

\* variant that removes one byte more than the declared padding length
pkcs7UnpadDropsOneMore(data) ==
    LET length == Len(data)
    IN  IF length = 0 THEN NilSlice
        ELSE LET padding == data[length]
             IN  IF padding > length THEN NilSlice
                 ELSE IF \E i \in (length - padding + 1)..length : data[i] # ToByte(padding)
                      THEN NilSlice
                      ELSE Slice(SubSeq(data, 1, length - padding - 1))

\* pkcs7Unpad: nil on empty input, on padding > length, on a padding byte
\* that differs from the last byte; otherwise data[:length-padding]
pkcs7Unpad(data) ==
    LET length == Len(data)
    IN  IF length = 0 THEN NilSlice
        ELSE LET padding == data[length]
             IN  IF padding > length THEN NilSlice
                 ELSE IF \E i \in (length - padding + 1)..length : data[i] # ToByte(padding)
                      THEN NilSlice
                      ELSE Slice(SubSeq(data, 1, length - padding))

-----------------------------------------------------------------------------
(* encoding/base64, StdEncoding (padded, non-strict)                       *)

\* '=' as an ASCII code
PadChar == 61

\* the ASCII code of the base64 digit with value v
B64Char(v) ==
    IF v < 26 THEN 65 + v
    ELSE IF v < 52 THEN 97 + (v - 26)
    ELSE IF v < 62 THEN 48 + (v - 52)
    ELSE IF v = 62 THEN 43 ELSE 47

\* the value of the base64 digit with ASCII code c, -1 when c is no digit
B64Val(c) ==
    IF c \in 65..90 THEN c - 65
    ELSE IF c \in 97..122 THEN c - 97 + 26
    ELSE IF c \in 48..57 THEN c - 48 + 52
    ELSE IF c = 43 THEN 62
    ELSE IF c = 47 THEN 63 ELSE -1

RECURSIVE B64Encode(_)
\* base64.StdEncoding.EncodeToString
B64Encode(bs) ==
    IF Len(bs) = 0 THEN <<>>
    ELSE IF Len(bs) = 1 THEN
        << B64Char(bs[1] \div 4), B64Char((bs[1] % 4) * 16), PadChar, PadChar >>
    ELSE IF Len(bs) = 2 THEN
        << B64Char(bs[1] \div 4),
           B64Char((bs[1] % 4) * 16 + (bs[2] \div 16)),
           B64Char((bs[2] % 16) * 4), PadChar >>
    ELSE
        << B64Char(bs[1] \div 4),
           B64Char((bs[1] % 4) * 16 + (bs[2] \div 16)),
           B64Char((bs[2] % 16) * 4 + (bs[3] \div 64)),
           B64Char(bs[3] % 64) >> \o B64Encode(SubSeq(bs, 4, Len(bs)))

\* the bytes of one quantum of n digits (n = 2, 3 or 4); left-over bits are dropped
B64Quantum(q, n) ==
    LET v1 == B64Val(q[1])
        v2 == B64Val(q[2])
        v3 == IF n >= 3 THEN B64Val(q[3]) ELSE 0
        v4 == IF n >= 4 THEN B64Val(q[4]) ELSE 0
        b1 == v1 * 4 + (v2 \div 16)
        b2 == (v2 % 16) * 16 + (v3 \div 4)
        b3 == (v3 % 4) * 64 + v4
    IN  IF n = 2 THEN <<b1>> ELSE IF n = 3 THEN <<b1, b2>> ELSE <<b1, b2, b3>>

RECURSIVE B64Decode(_)
\* base64.StdEncoding.DecodeString: [ok, bytes]; fails on a character outside
\* the alphabet, on an incomplete quantum, on misplaced or missing padding
B64Decode(s) ==
    IF Len(s) = 0 THEN [ok |-> TRUE, bytes |-> <<>>]
    ELSE IF Len(s) < 4 THEN [ok |-> FALSE, bytes |-> <<>>]
    ELSE
        LET q == SubSeq(s, 1, 4)
            valid(k) == \A i \in 1..k : B64Val(q[i]) >= 0
        IN  IF valid(4) THEN
                LET rest == B64Decode(SubSeq(s, 5, Len(s)))
                IN  [ok |-> rest.ok, bytes |-> B64Quantum(q, 4) \o rest.bytes]
            ELSE IF Len(s) = 4 /\ valid(3) /\ q[4] = PadChar THEN
                [ok |-> TRUE, bytes |-> B64Quantum(q, 3)]
            ELSE IF Len(s) = 4 /\ valid(2) /\ q[3] = PadChar /\ q[4] = PadChar THEN
                [ok |-> TRUE, bytes |-> B64Quantum(q, 2)]
            ELSE [ok |-> FALSE, bytes |-> <<>>]

-----------------------------------------------------------------------------
(* crypto/aes and crypto/cipher                                            *)

\* aes.BlockSize
BlockSize == 16

RECURSIVE XorBits(_, _, _)
XorBits(a, b, n) ==
    IF n = 0 THEN 0
    ELSE ((a + b) % 2) + 2 * XorBits(a \div 2, b \div 2, n - 1)

\* bitwise exclusive or of two bytes
XorByte(a, b) == XorBits(a, b, 8)

XorBlock(x, y) == [i \in 1..BlockSize |-> XorByte(x[i], y[i])]

\* aes.NewCipher accepts keys of 16, 24 or 32 bytes (KeySizeError otherwise)
AesKeyOk(key) == Len(key) \in {16, 24, 32}

\* The block cipher is modelled as a keyed bijection on 16-byte blocks:
\* byte i of the block is shifted by key byte i (mod the key length).
KeyByte(key, i) == key[((i - 1) % Len(key)) + 1]

AesEncryptBlock(key, b) == [i \in 1..BlockSize |-> (b[i] + KeyByte(key, i)) % 256]

AesDecryptBlock(key, b) == [i \in 1..BlockSize |-> (b[i] + 256 - KeyByte(key, i)) % 256]

RECURSIVE CbcEncrypt(_, _, _)
\* cipher.NewCBCEncrypter(block, iv).CryptBlocks over whole blocks
CbcEncrypt(key, iv, plain) ==
    IF Len(plain) = 0 THEN <<>>
    ELSE LET c == AesEncryptBlock(key, XorBlock(SubSeq(plain, 1, BlockSize), iv))
         IN  c \o CbcEncrypt(key, c, SubSeq(plain, BlockSize + 1, Len(plain)))

RECURSIVE CbcDecrypt(_, _, _)
\* cipher.NewCBCDecrypter(block, iv).CryptBlocks over whole blocks
CbcDecrypt(key, iv, ct) ==
    IF Len(ct) = 0 THEN <<>>
    ELSE LET c == SubSeq(ct, 1, BlockSize)
         IN  XorBlock(AesDecryptBlock(key, c), iv)
                 \o CbcDecrypt(key, c, SubSeq(ct, BlockSize + 1, Len(ct)))

\* CryptBlocks panics ("input not full blocks") unless len(src)%BlockSize == 0
FullBlocks(bs) == (Len(bs) % BlockSize) = 0

-----------------------------------------------------------------------------
(* encoding/xml and encoding/json, as far as the receiver uses them        *)

StartsWith(s, pre) == Len(s) >= Len(pre) /\ SubSeq(s, 1, Len(pre)) = pre

EndsWith(s, suf) == Len(s) >= Len(suf) /\ SubSeq(s, Len(s) - Len(suf) + 1, Len(s)) = suf

\* s is open, then text free of the characters in stop, then close
Wrapped(s, open, close, stop) ==
    /\ Len(s) >= Len(open) + Len(close)
    /\ StartsWith(s, open)
    /\ EndsWith(s, close)
    /\ \A i \in (Len(open) + 1)..(Len(s) - Len(close)) : s[i] \notin stop

Inner(s, open, close) == SubSeq(s, Len(open) + 1, Len(s) - Len(close))

\* "<EncryptedMessage><Encrypt>" and "</Encrypt></EncryptedMessage>"
XmlEncOpen == <<60, 69, 110, 99, 114, 121, 112, 116, 101, 100, 77, 101, 115, 115, 97, 103, 101, 62, 60, 69, 110, 99, 114, 121, 112, 116, 62>>
XmlEncClose == <<60, 47, 69, 110, 99, 114, 121, 112, 116, 62, 60, 47, 69, 110, 99, 114, 121, 112, 116, 101, 100, 77, 101, 115, 115, 97, 103, 101, 62>>

\* "<xml><Encrypt>" and "</Encrypt></xml>": the envelope as the platform sends it
XmlInOpen == <<60, 120, 109, 108, 62, 60, 69, 110, 99, 114, 121, 112, 116, 62>>
XmlInClose == <<60, 47, 69, 110, 99, 114, 121, 112, 116, 62, 60, 47, 120, 109, 108, 62>>

\* "<xml>" and "</xml>"
XmlOpen == <<60, 120, 109, 108, 62>>
XmlClose == <<60, 47, 120, 109, 108, 62>>

\* {"Encrypt":" and "}
JsonEncOpen == <<123, 34, 69, 110, 99, 114, 121, 112, 116, 34, 58, 34>>
JsonEncClose == <<34, 125>>

\* characters that end or escape character data: '<' '&' in XML, '"' '\' in JSON
XmlStop == {60, 38}
JsonStop == {34, 92}

\* xml.Marshal / json.Marshal of EncryptedMessage{Encrypt: s}; a base64
\* string holds no character either encoder escapes
MarshalEncrypted(dataType, s) ==
    IF dataType = "json" THEN JsonEncOpen \o s \o JsonEncClose
    ELSE XmlEncOpen \o s \o XmlEncClose

\* json.Unmarshal / xml.Unmarshal of the body into EncryptedMessage (the
\* document shapes the model knows): [ok, Encrypt]; a well-formed document
\* without an Encrypt field leaves Encrypt empty
UnmarshalEncrypted(dataType, body) ==
    IF dataType = "json" THEN
        IF Wrapped(body, JsonEncOpen, JsonEncClose, JsonStop)
        THEN [ok |-> TRUE, Encrypt |-> Inner(body, JsonEncOpen, JsonEncClose)]
        ELSE IF Wrapped(body, <<123>>, <<125>>, {123, 125})
        THEN [ok |-> TRUE, Encrypt |-> <<>>]
        ELSE [ok |-> FALSE, Encrypt |-> <<>>]
    ELSE
        IF Wrapped(body, XmlEncOpen, XmlEncClose, XmlStop)
        THEN [ok |-> TRUE, Encrypt |-> Inner(body, XmlEncOpen, XmlEncClose)]
        ELSE IF Wrapped(body, XmlInOpen, XmlInClose, XmlStop)
        THEN [ok |-> TRUE, Encrypt |-> Inner(body, XmlInOpen, XmlInClose)]
        ELSE IF StartsWith(body, XmlOpen) /\ EndsWith(body, XmlClose)
                /\ Len(body) >= Len(XmlOpen) + Len(XmlClose)
        THEN [ok |-> TRUE, Encrypt |-> <<>>]
        ELSE [ok |-> FALSE, Encrypt |-> <<>>]

\* parseBaseInfo: unmarshal into PushBaseInfo; TRUE iff the document is
\* well formed for the configured format (any field may be absent)
parseBaseInfo(c, data) ==
    IF c.DataType = "json" THEN
        Len(data) >= 2 /\ data[1] = 123 /\ Last(data) = 125
    ELSE
        \/ (StartsWith(data, XmlOpen) /\ EndsWith(data, XmlClose)
              /\ Len(data) >= Len(XmlOpen) + Len(XmlClose))
        \/ Wrapped(data, XmlEncOpen, XmlEncClose, XmlStop)

-----------------------------------------------------------------------------
(* Signatures: sort.Strings, strings.Join, crypto/sha1                     *)

RECURSIVE StrLess(_, _)
\* a < b for Go strings: bytewise lexicographic order
StrLess(a, b) ==
    IF Len(b) = 0 THEN FALSE
    ELSE IF Len(a) = 0 THEN TRUE
    ELSE IF a[1] # b[1] THEN a[1] < b[1]
    ELSE StrLess(Tail(a), Tail(b))

RECURSIVE InsertSorted(_, _)
InsertSorted(x, sorted) ==
    IF Len(sorted) = 0 THEN <<x>>
    ELSE IF StrLess(sorted[1], x) THEN <<sorted[1]>> \o InsertSorted(x, Tail(sorted))
    ELSE <<x>> \o sorted

RECURSIVE SortStrings(_)
\* sort.Strings
SortStrings(params) ==
    IF Len(params) = 0 THEN <<>>
    ELSE InsertSorted(params[1], SortStrings(Tail(params)))

RECURSIVE Join(_)
\* strings.Join(params, "")
Join(params) ==
    IF Len(params) = 0 THEN <<>> ELSE params[1] \o Join(Tail(params))

\* fmt.Sprintf("%x", sha1.Sum(str)): SHA-1 is modelled as collision free,
\* the digest of str being str behind the mark 256, which no byte equals
Sha1Hex(str) == <<256>> \o str

\* mutant: joins the parameters in argument order
verifySignatureUnsorted(c, token, timestamp, nonce, signature) ==
    Sha1Hex(Join(<<token, timestamp, nonce>>)) = signature

\* variant that puts the timestamp first and sorts the other two
verifySignatureTimestampFirst(c, token, timestamp, nonce, signature) ==
    Sha1Hex(Join(<<timestamp>> \o SortStrings(<<token, nonce>>))) = signature

\* verifySignature (plain text mode)
verifySignature(c, token, timestamp, nonce, signature) ==
    LET params == SortStrings(<<token, timestamp, nonce>>)
        str == Join(params)
        calcSignature == Sha1Hex(str)
    IN  calcSignature = signature

\* mutant: leaves the ciphertext out of the digest
verifyMsgSignatureNoEncrypt(c, token, timestamp, nonce, encrypt, msgSignature) ==
    Sha1Hex(Join(SortStrings(<<token, timestamp, nonce>>))) = msgSignature

\* variant that compares the digests by length only
verifyMsgSignatureLengthOnly(c, token, timestamp, nonce, encrypt, msgSignature) ==
    LET params == SortStrings(<<token, timestamp, nonce, encrypt>>)
        str == Join(params)
        calcSignature == Sha1Hex(str)
    IN  Len(calcSignature) = Len(msgSignature)

\* verifyMsgSignature (secure mode)
verifyMsgSignature(c, token, timestamp, nonce, encrypt, msgSignature) ==
    LET params == SortStrings(<<token, timestamp, nonce, encrypt>>)
        str == Join(params)
        calcSignature == Sha1Hex(str)
    IN  calcSignature = msgSignature

-----------------------------------------------------------------------------
(* WxPushReceiver: frame and envelope                                      *)

\* the 16 "random" bytes and the IV that encryptResponse generates: byte(i)
CounterBytes == [i \in 1..16 |-> i - 1]

\* byte(msgLen >> 24), byte(msgLen >> 16), byte(msgLen >> 8), byte(msgLen)
LengthBytes(msgLen) ==
    << ToByte(msgLen \div 16777216), ToByte(msgLen \div 65536),
       ToByte(msgLen \div 256), ToByte(msgLen) >>

\* int(b0)<<24 | int(b1)<<16 | int(b2)<<8 | int(b3) in an int of `bits` bits.
\* With b0 >= 128 a 32-bit int wraps to the negative value u - 2^32; a 64-bit
\* int holds u >= 2^31, which is kept here as 2^31 - 1: it is only ever
\* compared with the length of a buffer, which is smaller.
MsgLenOf(content, bits) ==
    LET low == content[2] * 65536 + content[3] * 256 + content[4]
    IN  IF content[1] < 128 THEN content[1] * 16777216 + low
        ELSE IF bits = 32 THEN (content[1] - 256) * 16777216 + low
        ELSE 2147483647

\* a returned error
EncErr(e) == [err |-> e, bytes |-> NilSlice]

\* mutant: the frame carries the account id before the payload
encryptResponseAppIdFirst(c, appID, responseData) ==
    LET plainText == pkcs7Pad(CounterBytes \o LengthBytes(Len(responseData))
                                 \o appID \o responseData, BlockSize)
        aesKey == B64Decode(c.EncodingAESKey \o <<PadChar>>)
    IN  IF ~aesKey.ok THEN EncErr("decode aes key failed")
        ELSE IF ~AesKeyOk(aesKey.bytes) THEN EncErr("create aes cipher failed")
        ELSE [err |-> "",
              bytes |-> Slice(MarshalEncrypted(c.DataType,
                          B64Encode(CounterBytes
                              \o CbcEncrypt(aesKey.bytes, CounterBytes, plainText))))]

\* encryptResponse: random(16) + length(4) + response + appID, padded,
\* CBC-encrypted, IV prepended, base64, marshalled as EncryptedMessage
encryptResponse(c, appID, responseData) ==
    LET randomBytes == CounterBytes
        lengthBytes == LengthBytes(Len(responseData))
        plainText == pkcs7Pad(randomBytes \o lengthBytes \o responseData \o appID,
                              BlockSize)
        aesKey == B64Decode(c.EncodingAESKey \o <<PadChar>>)
        iv == CounterBytes
    IN  IF ~aesKey.ok THEN EncErr("decode aes key failed")
        ELSE IF ~AesKeyOk(aesKey.bytes) THEN EncErr("create aes cipher failed")
        ELSE LET cipherText == CbcEncrypt(aesKey.bytes, iv, plainText)
                 encryptedStr == B64Encode(iv \o cipherText)
             IN  [err |-> "", bytes |-> Slice(MarshalEncrypted(c.DataType, encryptedStr))]

\* the key seed of c gives a key aes.NewCipher accepts
DecKeyOf(c) ==
    LET k == B64Decode(c.EncodingAESKey \o <<PadChar>>)
    IN  k.ok /\ AesKeyOk(k.bytes)

\* a returned error, a panic, a result
DecErr(e) == [panicked |-> FALSE, err |-> e, message |-> <<>>, appid |-> <<>>]

DecPanic(e) == [panicked |-> TRUE, err |-> e, message |-> <<>>, appid |-> <<>>]

DecOk(m, a) == [panicked |-> FALSE, err |-> "", message |-> m, appid |-> a]

\* variant that starts the account id one byte late
parseFrameAppIdLate(plain, bits) ==
    IF Len(plain) < 20 THEN DecErr("decrypted data too short")
    ELSE LET content == SubSeq(plain, 17, Len(plain))
         IN  IF Len(content) < 4 THEN DecErr("content too short")
             ELSE LET msgLen == MsgLenOf(content, bits)
                      rest == SubSeq(content, 5, Len(content))
                  IN  IF Len(rest) < msgLen THEN DecErr("content length mismatch")
                      ELSE IF msgLen < 0 THEN DecPanic("slice bounds out of range")
                      ELSE DecOk(SubSeq(rest, 1, msgLen),
                                 SubSeq(rest, msgLen + 2, Len(rest)))

\* the frame parser of decryptMessage, after unpadding
parseFrame(plain, bits) ==
    IF Len(plain) < 20 THEN DecErr("decrypted data too short")
    ELSE LET content == SubSeq(plain, 17, Len(plain))
         IN  IF Len(content) < 4 THEN DecErr("content too short")
             ELSE LET msgLen == MsgLenOf(content, bits)
                      rest == SubSeq(content, 5, Len(content))
                  IN  IF Len(rest) < msgLen THEN DecErr("content length mismatch")
                      ELSE IF msgLen < 0 THEN DecPanic("slice bounds out of range")
                      ELSE DecOk(SubSeq(rest, 1, msgLen),
                                 SubSeq(rest, msgLen + 1, Len(rest)))

\* mutant: decrypts the whole buffer, IV included, under a zero IV
decryptMessageKeepIV(c, encryptedData, bits) ==
    LET cipherText == B64Decode(encryptedData)
        aesKey == B64Decode(c.EncodingAESKey \o <<PadChar>>)
    IN  IF ~cipherText.ok THEN DecErr("base64 decode failed")
        ELSE IF ~aesKey.ok THEN DecErr("decode aes key failed")
        ELSE IF ~AesKeyOk(aesKey.bytes) THEN DecErr("create aes cipher failed")
        ELSE IF Len(cipherText.bytes) < BlockSize THEN DecErr("cipher text too short")
        ELSE IF ~FullBlocks(cipherText.bytes)
             THEN DecPanic("crypto/cipher: input not full blocks")
        ELSE LET unpadded == pkcs7Unpad(CbcDecrypt(aesKey.bytes, Repeat(0, BlockSize),
                                                   cipherText.bytes))
             IN  IF unpadded.isNil THEN DecErr("pkcs7 unpad failed")
                 ELSE parseFrame(unpadded.bytes, bits)

\* decryptMessage: base64, key, cipher, IV split, CBC decrypt (CryptBlocks
\* panics on a partial block), unpad, frame
decryptMessage(c, encryptedData, bits) ==
    LET cipherText == B64Decode(encryptedData)
        aesKey == B64Decode(c.EncodingAESKey \o <<PadChar>>)
    IN  IF ~cipherText.ok THEN DecErr("base64 decode failed")
        ELSE IF ~aesKey.ok THEN DecErr("decode aes key failed")
        ELSE IF ~AesKeyOk(aesKey.bytes) THEN DecErr("create aes cipher failed")
        ELSE IF Len(cipherText.bytes) < BlockSize THEN DecErr("cipher text too short")
        ELSE LET iv == SubSeq(cipherText.bytes, 1, BlockSize)
                 blocks == SubSeq(cipherText.bytes, BlockSize + 1, Len(cipherText.bytes))
             IN  IF ~FullBlocks(blocks)
                 THEN DecPanic("crypto/cipher: input not full blocks")
                 ELSE LET unpadded == pkcs7Unpad(CbcDecrypt(aesKey.bytes, iv, blocks))
                      IN  IF unpadded.isNil THEN DecErr("pkcs7 unpad failed")
                          ELSE parseFrame(unpadded.bytes, bits)

-----------------------------------------------------------------------------
(* Inputs                                                                  *)

\* "0123456780012345678001234567800123456780012" (43 characters, 32-byte key)
ValidKeySeed == <<48, 49, 50, 51, 52, 53, 54, 55, 56, 48, 48, 49, 50, 51, 52, 53, 54, 55, 56, 48, 48, 49, 50, 51, 52, 53, 54, 55, 56, 48, 48, 49, 50, 51, 52, 53, 54, 55, 56, 48, 48, 49, 50>>

\* "invalid-key": '-' is outside the base64 alphabet
InvalidKeySeed == <<105, 110, 118, 97, 108, 105, 100, 45, 107, 101, 121>>

\* "MDEyMzQ1Njc4OWFiY2RlZg=": with "=" appended it decodes to 16 bytes
Aes128KeySeed == <<77, 68, 69, 121, 77, 122, 81, 49, 78, 106, 99, 52, 79, 87, 70, 105, 89, 50, 82, 108, 90, 103, 61>>

\* "abc": with "=" appended it decodes to 2 bytes
ShortKeySeed == <<97, 98, 99>>

KeySeeds == {ValidKeySeed, InvalidKeySeed, Aes128KeySeed, ShortKeySeed}

\* "t0k"
Token0 == <<116, 48, 107>>

DataTypes == {"xml", "json"}

IntWidths == {32, 64}

\* "<xml><MsgType>text</MsgType></xml>"
XmlMsg == <<60, 120, 109, 108, 62, 60, 77, 115, 103, 84, 121, 112, 101, 62, 116, 101, 120, 116, 60, 47, 77, 115, 103, 84, 121, 112, 101, 62, 60, 47, 120, 109, 108, 62>>

\* {"MsgType":"text"}
JsonMsg == <<123, 34, 77, 115, 103, 84, 121, 112, 101, 34, 58, 34, 116, 101, 120, 116, 34, 125>>

\* "success"
SuccessBytes == <<115, 117, 99, 99, 101, 115, 115>>

\* "test response"
TestResponse == <<116, 101, 115, 116, 32, 114, 101, 115, 112, 111, 110, 115, 101>>

\* "", "wx1", "test-app-id"
AppIDs == {<<>>, <<119, 120, 49>>, <<116, 101, 115, 116, 45, 97, 112, 112, 45, 105, 100>>}

\* byte values used to enumerate payloads
PayloadBytes == {0, 60, 255}

Payloads ==
    SeqsUpTo(PayloadBytes, MaxPayloadLen)
        \cup {XmlMsg, JsonMsg, SuccessBytes, TestResponse, Repeat(120, 12)}

\* the 32-byte key of ValidKeySeed
ValidKey == B64Decode(ValidKeySeed \o <<PadChar>>).bytes

\* IV || CBC(plain) in base64, as the platform produces it from a padded plaintext
Seal(iv, plain) == B64Encode(iv \o CbcEncrypt(ValidKey, iv, plain))

\* an IV other than the receiver's own
PlatformIV == [i \in 1..16 |-> 200 + i]

\* a frame: salt, 4 length bytes, payload, account id
Frame(lenBytes, payload, appid) == Repeat(7, 16) \o lenBytes \o payload \o appid

SealFrame(lenBytes, payload, appid) ==
    Seal(PlatformIV, pkcs7Pad(Frame(lenBytes, payload, appid), BlockSize))

\* ciphertexts around the failure modes of decryptMessage
BadCipherInputs ==
    { <<33, 33, 33, 33>>,                          \* "!!!!": not base64
      <<65, 65, 65>>,                              \* "AAA": incomplete quantum
      <<>>,                                        \* no bytes
      B64Encode(Repeat(1, 5)),                     \* shorter than a block
      B64Encode(Repeat(1, 16)),                    \* an IV and nothing else
      B64Encode(Repeat(1, 17)),                    \* a partial block
      B64Encode(Repeat(1, 24)),                    \* a partial block
      B64Encode(Repeat(1, 40)),                    \* a block and a partial block
      Seal(PlatformIV, Repeat(17, 16)),            \* padding byte 17 > 16
      Seal(PlatformIV, Repeat(9, 14) \o <<3, 2>>), \* padding bytes 3, 2
      Seal(PlatformIV, Repeat(9, 15) \o <<0>>),    \* padding byte 0
      Seal(PlatformIV, pkcs7Pad(Repeat(9, 10), BlockSize)),   \* frame of 10 bytes
      SealFrame(<<0, 0, 0, 100>>, XmlMsg, <<>>),              \* length 100, fewer bytes
      SealFrame(<<128, 0, 0, 0>>, XmlMsg, <<>>),              \* length 2^31
      SealFrame(<<255, 255, 255, 255>>, XmlMsg, <<>>) }       \* length 2^32 - 1

\* well-formed ciphertexts
GoodCipherInputs ==
    { SealFrame(LengthBytes(Len(XmlMsg)), XmlMsg, <<119, 120, 49>>),
      SealFrame(LengthBytes(Len(JsonMsg)), JsonMsg, <<119, 120, 49>>),
      SealFrame(LengthBytes(Len(XmlMsg)), XmlMsg, <<>>),
      SealFrame(LengthBytes(0), <<>>, <<119, 120, 49>>),
      SealFrame(LengthBytes(3), <<1, 2, 3>>, <<119, 120, 49>>) }

CipherInputs == BadCipherInputs \cup GoodCipherInputs

Receivers ==
    [Token : {Token0}, EncodingAESKey : KeySeeds,
     SecurityMode : {"plain", "secure"}, DataType : DataTypes]

CfgIdle ==
    /\ receiver = [Token |-> Token0, EncodingAESKey |-> ValidKeySeed,
                   SecurityMode |-> "secure", DataType |-> "xml"]
    /\ intBits = 64

CodecIdle ==
    /\ codecPc = "idle"
    /\ encAppID = <<>>
    /\ encData = <<>>
    /\ encOut = EncErr("")
    /\ decIn = <<>>
    /\ decOut = DecErr("")
    /\ encAgain = EncErr("")

-----------------------------------------------------------------------------
(* WxPushReceiver: HandlePushMessage                                       *)
(*                                                                         *)
(* One call is a record k: its position pc, the request req, the locals    *)
(* of the handle functions, the named results response and err (an error   *)
(* is the sequence of its wrapped messages, nil is <<>>), and what an      *)
(* observer sees: the steps that succeeded, the handler invocations, the   *)
(* panic raised (fault).                                                   *)

\* "aes"
AesType == <<97, 101, 115>>

\* the handler given to HandlePushMessage: nil, panicking, failing,
\* answering nothing, answering TestResponse
HandlerKinds == {"nil", "panic", "error", "empty", "reply"}

\* responseData, err := handler(appid, baseInfo, data)
HandlerOutcome(h, appid, data) ==
    [invoked |-> h # "nil",
     panicked |-> h \in {"nil", "panic"},
     err |-> IF h = "error" THEN "handler error" ELSE "",
     resp |-> IF h = "reply" THEN Slice(TestResponse) ELSE NilSlice]

\* return resp, err
Returned(k, resp, err) == [k EXCEPT !.pc = "done", !.response = resp, !.err = err]

\* return nil, err
Fail(k, err) == Returned(k, NilSlice, err)

\* mutant: no deferred recover, the panic leaves HandlePushMessage
RecoverMissing(k, v) == [k EXCEPT !.pc = "crashed", !.fault = v]

\* the deferred function of HandlePushMessage: a panic v becomes _err, the
\* named result _response keeps its zero value
Recover(k, v) ==
    [k EXCEPT !.pc = "done", !.fault = v, !.response = NilSlice,
              !.err = <<"handle push message error", v>>]

Did(k, step) == [k EXCEPT !.steps = Append(@, step)]

\* mutant: the secure path is taken whenever encrypt_type is "aes"
HandlePushMessageIgnoresBody(c, k) ==
    IF k.req.fetcher # "ok" THEN Recover(k, "parameterFetcher")
    ELSE IF k.req.encrypt_type = AesType
         THEN [k EXCEPT !.pc = "s_unmarshal", !.path = "secure"]
         ELSE [k EXCEPT !.pc = "p_verify", !.path = "plain"]

\* variant that chooses the path by the configured SecurityMode
HandlePushMessageByMode(c, k) ==
    IF k.req.fetcher # "ok" THEN Recover(k, "parameterFetcher")
    ELSE IF c.SecurityMode = "secure" /\ Len(k.req.body) > 0
         THEN [k EXCEPT !.pc = "s_unmarshal", !.path = "secure"]
         ELSE [k EXCEPT !.pc = "p_verify", !.path = "plain"]

\* HandlePushMessage: fetch the URL parameters, choose the path
HandlePushMessage(c, k) ==
    IF k.req.fetcher # "ok" THEN Recover(k, "parameterFetcher")
    ELSE IF k.req.encrypt_type = AesType /\ Len(k.req.body) > 0
         THEN [k EXCEPT !.pc = "s_unmarshal", !.path = "secure"]
         ELSE [k EXCEPT !.pc = "p_verify", !.path = "plain"]

\* handleEncryptedMessage: parse encrypted message
secureUnmarshal(c, k) ==
    LET encryptedMsg == UnmarshalEncrypted(c.DataType, k.req.body)
    IN  IF ~encryptedMsg.ok THEN Fail(k, <<"unmarshal encrypted message failed">>)
        ELSE [Did(k, "unmarshal") EXCEPT !.pc = "s_verify",
                                         !.encrypt = encryptedMsg.Encrypt]

\* mutant: the message signature is not checked
secureVerifySkipped(c, k) == [k EXCEPT !.pc = "s_decrypt"]

\* handleEncryptedMessage: verify message signature
secureVerify(c, k) ==
    IF ~verifyMsgSignature(c, c.Token, k.req.timestamp, k.req.nonce, k.encrypt,
                           k.req.msg_signature)
    THEN Fail(k, <<"invalid message signature">>)
    ELSE [Did(k, "verify") EXCEPT !.pc = "s_decrypt"]

\* handleEncryptedMessage: decrypt
secureDecrypt(c, bits, k) ==
    LET d == decryptMessage(c, k.encrypt, bits)
    IN  IF d.panicked THEN Recover(k, d.err)
        ELSE IF d.err # "" THEN Fail(k, <<"decrypt message failed", d.err>>)
        ELSE [Did(Did(k, "decrypt"), "frame") EXCEPT !.pc = "s_parse",
                                                     !.data = d.message,
                                                     !.appid = d.appid]

\* mutant: a failed parse of the base info is ignored
secureParseLenient(c, k) ==
    IF ~parseBaseInfo(c, k.data) THEN [k EXCEPT !.pc = "s_handler"]
    ELSE [Did(k, "parse") EXCEPT !.pc = "s_handler"]

\* handleEncryptedMessage: parse base info
secureParse(c, k) ==
    IF ~parseBaseInfo(c, k.data) THEN Fail(k, <<"parse base info failed">>)
    ELSE [Did(k, "parse") EXCEPT !.pc = "s_handler"]

\* the handler is entered with (appid, data)
Invoked(k, o, appid, data) ==
    IF o.invoked
    THEN [Did(k, "handler") EXCEPT
              !.handlerCalls = Append(@, [appid |-> appid, data |-> data])]
    ELSE k

\* variant that calls the handler a second time when it reports an error
secureHandlerRetries(c, k) ==
    LET o == HandlerOutcome(k.req.handler, k.appid, k.data)
        k1 == Invoked(k, o, k.appid, k.data)
    IN  IF o.panicked THEN Recover(k1, "handler")
        ELSE IF o.err # "" THEN Fail(Invoked(k1, o, k.appid, k.data),
                                     <<"handler failed", o.err>>)
        ELSE [k1 EXCEPT !.pc = "s_encrypt", !.responseData = o.resp]

\* handleEncryptedMessage: call business processing function
secureHandler(c, k) ==
    LET o == HandlerOutcome(k.req.handler, k.appid, k.data)
        k1 == Invoked(k, o, k.appid, k.data)
    IN  IF o.panicked THEN Recover(k1, "handler")
        ELSE IF o.err # "" THEN Fail(k1, <<"handler failed", o.err>>)
        ELSE [k1 EXCEPT !.pc = "s_encrypt", !.responseData = o.resp]

\* variant that returns the response of the handler as it is
secureEncryptSkipped(c, k) ==
    LET responseData == IF Len(k.responseData.bytes) = 0 THEN SuccessBytes
                        ELSE k.responseData.bytes
    IN  Returned(Did(k, "encrypt"), Slice(responseData), <<>>)

\* handleEncryptedMessage: default "success", encrypt the response
secureEncrypt(c, k) ==
    LET responseData == IF Len(k.responseData.bytes) = 0 THEN SuccessBytes
                        ELSE k.responseData.bytes
        r == encryptResponse(c, k.appid, responseData)
    IN  IF r.err # "" THEN Fail(k, <<r.err>>)
        ELSE Returned(Did(k, "encrypt"), r.bytes, <<>>)

\* mutant: the signature is not checked
plainVerifySkipped(c, k) == [k EXCEPT !.pc = "p_parse"]

\* variant whose digest covers the body as well
plainVerifyCoversBody(c, k) ==
    IF ~verifyMsgSignature(c, c.Token, k.req.timestamp, k.req.nonce, k.req.body,
                           k.req.signature)
    THEN Fail(k, <<"invalid signature">>)
    ELSE [Did(k, "verify") EXCEPT !.pc = "p_parse"]

\* handlePlainMessage: verify signature
plainVerify(c, k) ==
    IF ~verifySignature(c, c.Token, k.req.timestamp, k.req.nonce, k.req.signature)
    THEN Fail(k, <<"invalid signature">>)
    ELSE [Did(k, "verify") EXCEPT !.pc = "p_parse"]

\* variant without the shortcut for an empty body
plainParseNoEmptyCheck(c, k) ==
    IF ~parseBaseInfo(c, k.req.body) THEN Fail(k, <<"parse base info failed">>)
    ELSE [Did(k, "parse") EXCEPT !.pc = "p_handler"]

\* handlePlainMessage: empty body, parse base info
plainParse(c, k) ==
    IF Len(k.req.body) = 0 THEN Returned(k, Slice(SuccessBytes), <<>>)
    ELSE IF ~parseBaseInfo(c, k.req.body) THEN Fail(k, <<"parse base info failed">>)
    ELSE [Did(k, "parse") EXCEPT !.pc = "p_handler"]

\* variant that answers "success" when the handler reports an error
plainHandlerSwallowsError(c, k) ==
    LET o == HandlerOutcome(k.req.handler, <<>>, k.req.body)
        k1 == Invoked(k, o, <<>>, k.req.body)
    IN  IF o.panicked THEN Recover(k1, "handler")
        ELSE IF Len(o.resp.bytes) > 0 THEN Returned(k1, o.resp, <<>>)
        ELSE Returned(k1, Slice(SuccessBytes), <<>>)

\* variant that answers "success" whatever the handler returned
plainHandlerAlwaysSuccess(c, k) ==
    LET o == HandlerOutcome(k.req.handler, <<>>, k.req.body)
        k1 == Invoked(k, o, <<>>, k.req.body)
    IN  IF o.panicked THEN Recover(k1, "handler")
        ELSE IF o.err # "" THEN Fail(k1, <<"handler failed", o.err>>)
        ELSE Returned(k1, Slice(SuccessBytes), <<>>)

\* handlePlainMessage: call business processing function, return its
\* response or "success"
plainHandler(c, k) ==
    LET o == HandlerOutcome(k.req.handler, <<>>, k.req.body)
        k1 == Invoked(k, o, <<>>, k.req.body)
    IN  IF o.panicked THEN Recover(k1, "handler")
        ELSE IF o.err # "" THEN Fail(k1, <<"handler failed", o.err>>)
        ELSE IF Len(o.resp.bytes) > 0 THEN Returned(k1, o.resp, <<>>)
        ELSE Returned(k1, Slice(SuccessBytes), <<>>)

-----------------------------------------------------------------------------
(* Requests                                                                *)

\* "12" and "3"
Timestamp0 == <<49, 50>>
Nonce0 == <<51>>

\* "invalid-signature"
InvalidSignature == <<105, 110, 118, 97, 108, 105, 100, 45, 115, 105, 103, 110, 97, 116, 117, 114, 101>>

\* "plain"
PlainType == <<112, 108, 97, 105, 110>>

\* "invalid xml"
Garbage == <<105, 110, 118, 97, 108, 105, 100, 32, 120, 109, 108>>

\* the platform's signing rule: SHA-1 over the sorted, joined parameters
SignOf(params) == Sha1Hex(Join(SortStrings(params)))

\* the envelope as the platform serialises it
PlatformEnvelope(dataType, e) ==
    IF dataType = "json" THEN JsonEncOpen \o e \o JsonEncClose
    ELSE XmlInOpen \o e \o XmlInClose

\* ciphertexts sent to HandlePushMessage
PushCiphers ==
    { <<33, 33, 33, 33>>,
      B64Encode(Repeat(1, 5)),
      B64Encode(Repeat(1, 17)),
      Seal(PlatformIV, Repeat(9, 14) \o <<3, 2>>),
      Seal(PlatformIV, pkcs7Pad(Repeat(9, 10), BlockSize)),
      SealFrame(<<0, 0, 0, 100>>, XmlMsg, <<>>),
      SealFrame(<<128, 0, 0, 0>>, XmlMsg, <<>>),
      SealFrame(LengthBytes(Len(XmlMsg)), XmlMsg, <<119, 120, 49>>),
      SealFrame(LengthBytes(Len(JsonMsg)), JsonMsg, <<119, 120, 49>>),
      SealFrame(LengthBytes(0), <<>>, <<119, 120, 49>>),
      SealFrame(LengthBytes(Len(XmlMsg)), XmlMsg, <<>>) }

OtherType(dataType) == IF dataType = "json" THEN "xml" ELSE "json"

\* bodies, each with the ciphertext the platform signed (empty when none)
Bodies(dataType) ==
    {[body |-> b, encrypt |-> <<>>] : b \in {<<>>, XmlMsg, JsonMsg, Garbage}}
      \cup {[body |-> PlatformEnvelope(dataType, e), encrypt |-> e] : e \in PushCiphers}
      \cup {[body |-> PlatformEnvelope(OtherType(dataType), e), encrypt |-> e] :
                e \in {SealFrame(LengthBytes(Len(XmlMsg)), XmlMsg, <<119, 120, 49>>)}}

Request(f, sig, msgSig, encType, body, h) ==
    [fetcher |-> f, signature |-> sig, timestamp |-> Timestamp0, nonce |-> Nonce0,
     msg_signature |-> msgSig, encrypt_type |-> encType, body |-> body, handler |-> h]

\* the requests a transport may hand to a receiver with token and dataType:
\* every combination of right and wrong signatures, encrypt_type, body and
\* handler, and a nil and a panicking parameterFetcher
Requests(token, dataType) ==
    UNION { { Request("ok", sig, msgSig, encType, b.body, h) :
                sig \in {SignOf(<<token, Timestamp0, Nonce0>>), InvalidSignature},
                msgSig \in {SignOf(<<token, Timestamp0, Nonce0, b.encrypt>>),
                            InvalidSignature},
                encType \in {AesType, PlainType, <<>>},
                h \in HandlerKinds } : b \in Bodies(dataType) }
      \cup { Request(f, InvalidSignature, InvalidSignature, AesType, XmlMsg, "reply") :
               f \in {"nil", "panic"} }

NoRequest == Request("ok", <<>>, <<>>, <<>>, <<>>, "nil")

NewCall(req) ==
    [pc |-> "start", req |-> req, path |-> "", encrypt |-> <<>>, data |-> <<>>,
     appid |-> <<>>, responseData |-> NilSlice, response |-> NilSlice, err |-> <<>>,
     fault |-> "", steps |-> <<>>, handlerCalls |-> <<>>]

IdleCall == [NewCall(NoRequest) EXCEPT !.pc = "idle"]

PushIdle == call = IdleCall

\* parameter strings of the signature harness: digits and letters chosen so
\* that the sorted order differs from the argument order, and so that
\* different parameters can share characters
SigTokens == {Token0, <<50>>}

SigTimestamps == {Timestamp0, <<49>>, <<52>>}

SigNonces == {Nonce0, <<50, 51>>, <<50>>}

SigEncrypts == {<<81>>, <<48>>, <<49, 81>>}

SigParams(token, timestamp, nonce, encrypt) ==
    [token |-> token, timestamp |-> timestamp, nonce |-> nonce, encrypt |-> encrypt]

\* every arrangement of the strings of params
Arrangements(params) ==
    {[i \in 1..Len(params) |-> params[f[i]]] : f \in Permutations(1..Len(params))}

\* signatures a caller may supply: the digest of every arrangement of the
\* three and of the four parameters, the undigested concatenation, the
\* string of the tests, the empty string
SigCandidates(a) ==
    {Sha1Hex(Join(q)) : q \in Arrangements(<<a.token, a.timestamp, a.nonce>>)}
        \cup {Sha1Hex(Join(q)) :
                 q \in Arrangements(<<a.token, a.timestamp, a.nonce, a.encrypt>>)}
        \cup {Join(SortStrings(<<a.token, a.timestamp, a.nonce>>)), InvalidSignature, <<>>}

\* bytes a tampered position may be changed to
TamperBytes == {48, 49, 50, 51, 81}

\* str with the byte at position i replaced by b
ReplaceByte(str, i, b) == [str EXCEPT ![i] = b]

\* the parameters a with one byte of one of field f replaced
Tampered(a, f, i, b) == [a EXCEPT ![f] = ReplaceByte(a[f], i, b)]

SigIdle ==
    /\ sigPc = "idle"
    /\ sigSent = SigParams(<<>>, <<>>, <<>>, <<>>)
    /\ sigArgs = SigParams(<<>>, <<>>, <<>>, <<>>)
    /\ sigGiven = <<>>
    /\ sigOut = [plain |-> FALSE, msg |-> FALSE]

MultiIdle ==
    /\ call2 = IdleCall
    /\ log = <<>>

PhoneIdle ==
    /\ phonePc = "idle"
    /\ phoneIn = [sessionKey |-> <<>>, encryptedData |-> <<>>, iv |-> <<>>]
    /\ phoneOut = [panicked |-> FALSE, info |-> <<>>, err |-> ""]

TokenIdle ==
    /\ client = [hasCache |-> FALSE]
    /\ cache = [value |-> <<>>, expire |-> 0]
    /\ tokLast = [kind |-> "none", token |-> <<>>, err |-> "", contacted |-> FALSE,
                  setFailed |-> FALSE]
    /\ issued = {}
    /\ tokCalls = 0

-----------------------------------------------------------------------------
(* Padding harness: the calls made by TestPkcs7Pad / TestPkcs7Unpad        *)

\* byte values used to enumerate inputs
PadBytes == {0, 1, 2, 3}

\* the test vectors of TestPkcs7Unpad and TestPkcs7Pad
PadExamples ==
    { <<1, 2, 3, 4, 5, 3, 3, 3>>,
      <<1, 2, 3, 4, 5, 6, 7, 1>>,
      <<1, 2, 3, 10>>,
      <<1, 2, 3, 4, 5, 3, 2, 3>>,
      <<104, 101, 108, 108, 111>>,
      <<104, 101, 108, 108, 111, 32, 119, 111, 114, 108, 100, 49, 50, 51, 52, 53>> }

PadInputs == SeqsUpTo(PadBytes, MaxPadLen) \cup PadExamples

\* block sizes: small ones, the AES block size, and sizes around the byte range
PadBlockSizes == {1, 2, 3, 4, 8, 16, 255, 256, 300}

PadIdle ==
    /\ padPc = "idle"
    /\ padData = <<>>
    /\ padBlock = 1
    /\ padOut = <<>>
    /\ unpadOut = NilSlice

PadInit ==
    /\ padPc = "init"
    /\ padData \in PadInputs
    /\ padBlock \in PadBlockSizes
    /\ padOut = <<>>
    /\ unpadOut = NilSlice
    /\ CfgIdle
    /\ CodecIdle
    /\ PushIdle
    /\ SigIdle
    /\ MultiIdle
    /\ PhoneIdle
    /\ TokenIdle

\* result := pkcs7Pad(tt.data, tt.blockSize)
PadCall ==
    /\ padPc = "init"
    /\ padOut' = pkcs7Pad(padData, padBlock)
    /\ padPc' = "padded"
    /\ UNCHANGED <<padData, padBlock, unpadOut, cfgVars, codecVars, pushVars, sigVars, multiVars, phoneVars, tokenVars>>

\* pkcs7Unpad applied to the padded buffer
UnpadPadded ==
    /\ padPc = "padded"
    /\ unpadOut' = pkcs7Unpad(padOut)
    /\ padPc' = "roundtrip"
    /\ UNCHANGED <<padData, padBlock, padOut, cfgVars, codecVars, pushVars, sigVars, multiVars, phoneVars, tokenVars>>

\* result := pkcs7Unpad(tt.data)
UnpadCall ==
    /\ padPc = "init"
    /\ unpadOut' = pkcs7Unpad(padData)
    /\ padPc' = "unpadded"
    /\ UNCHANGED <<padData, padBlock, padOut, cfgVars, codecVars, pushVars, sigVars, multiVars, phoneVars, tokenVars>>

PadNext == PadCall \/ UnpadPadded \/ UnpadCall

SpecPad == PadInit /\ [][PadNext]_vars

-----------------------------------------------------------------------------
(* Codec harness: encryptResponse and decryptMessage called directly, as   *)
(* TestEncryptResponse and TestEncryptAndDecrypt do                        *)

CodecInit ==
    /\ receiver \in {r \in Receivers : r.SecurityMode = "secure"}
    /\ intBits \in IntWidths
    /\ codecPc = "init"
    /\ encAppID \in AppIDs
    /\ encData \in Payloads
    /\ encOut = EncErr("")
    /\ decIn = <<>>
    /\ decOut = DecErr("")
    /\ encAgain = EncErr("")
    /\ PadIdle
    /\ PushIdle
    /\ SigIdle
    /\ MultiIdle
    /\ PhoneIdle
    /\ TokenIdle

\* encMsg, err := receiver.encryptResponse(appID, responseData)
EncryptCall ==
    /\ codecPc = "init"
    /\ encOut' = encryptResponse(receiver, encAppID, encData)
    /\ codecPc' = "encrypted"
    /\ UNCHANGED <<encAppID, encData, decIn, decOut, encAgain, cfgVars, padVars, pushVars, sigVars, multiVars, phoneVars, tokenVars>>

\* receiver.decryptMessage(encMsg.Encrypt) on the envelope just produced
DecryptProduced ==
    /\ codecPc = "encrypted"
    /\ encOut.err = ""
    /\ LET env == UnmarshalEncrypted(receiver.DataType, encOut.bytes.bytes)
       IN  /\ decIn' = env.Encrypt
           /\ decOut' = decryptMessage(receiver, env.Encrypt, intBits)
    /\ codecPc' = "roundtrip"
    /\ UNCHANGED <<encAppID, encData, encOut, encAgain, cfgVars, padVars, pushVars, sigVars, multiVars, phoneVars, tokenVars>>

\* receiver.decryptMessage(encryptedData) on a ciphertext from outside
DecryptCall ==
    /\ codecPc = "init"
    /\ \E e \in CipherInputs :
          /\ decIn' = e
          /\ decOut' = decryptMessage(receiver, e, intBits)
    /\ codecPc' = "decrypted"
    /\ UNCHANGED <<encAppID, encData, encOut, encAgain, cfgVars, padVars, pushVars, sigVars, multiVars, phoneVars, tokenVars>>

\* a second receiver.encryptResponse(appID, responseData), as the test
\* "different nonces for multiple calls" makes
EncryptAgain ==
    /\ codecPc = "encrypted"
    /\ encAgain' = encryptResponse(receiver, encAppID, encData)
    /\ codecPc' = "encrypted twice"
    /\ UNCHANGED <<encAppID, encData, encOut, decIn, decOut, cfgVars, padVars, pushVars, sigVars, multiVars, phoneVars, tokenVars>>

CodecNext == EncryptCall \/ DecryptProduced \/ DecryptCall \/ EncryptAgain

SpecCodec == CodecInit /\ [][CodecNext]_vars

-----------------------------------------------------------------------------
(* Signature harness: verifySignature and verifyMsgSignature called        *)
(* directly, as TestVerifySignatureWithKnownData and                       *)
(* TestVerifyMsgSignature do                                               *)

SigInit ==
    /\ sigPc = "init"
    /\ sigSent \in {SigParams(t, ts, n, e) :
                       t \in SigTokens, ts \in SigTimestamps,
                       n \in SigNonces, e \in SigEncrypts}
    /\ sigArgs = sigSent
    /\ sigGiven = <<>>
    /\ sigOut = [plain |-> FALSE, msg |-> FALSE]
    /\ CfgIdle
    /\ PadIdle
    /\ CodecIdle
    /\ PushIdle
    /\ MultiIdle
    /\ PhoneIdle
    /\ TokenIdle

\* both verifications of sigGiven' against the parameters sigArgs'
SigResults ==
    sigOut' =
        [plain |-> verifySignature(receiver, sigArgs'.token, sigArgs'.timestamp,
                                   sigArgs'.nonce, sigGiven'),
         msg   |-> verifyMsgSignature(receiver, sigArgs'.token, sigArgs'.timestamp,
                                      sigArgs'.nonce, sigArgs'.encrypt, sigGiven')]

\* isValid := receiver.verifySignature(token, timestamp, nonce, signature) and
\* isValid := receiver.verifyMsgSignature(token, timestamp, nonce, encrypt, signature)
VerifyCall ==
    /\ sigPc = "init"
    /\ \E g \in SigCandidates(sigSent) : sigGiven' = g
    /\ sigArgs' = sigSent
    /\ SigResults
    /\ sigPc' = "verified"
    /\ UNCHANGED <<sigSent, cfgVars, padVars, codecVars, pushVars, multiVars, phoneVars, tokenVars>>

\* the same calls with the signature of the parameters sent and one byte of
\* timestamp, nonce or encrypt replaced by a different one on the way
TamperedVerify ==
    /\ sigPc = "init"
    /\ \E f \in {"timestamp", "nonce", "encrypt"} :
          \E i \in 1..Len(sigSent[f]) :
             \E b \in TamperBytes \ {sigSent[f][i]} :
                sigArgs' = Tampered(sigSent, f, i, b)
    /\ sigGiven' \in {SignOf(<<sigSent.token, sigSent.timestamp, sigSent.nonce>>),
                      SignOf(<<sigSent.token, sigSent.timestamp, sigSent.nonce,
                               sigSent.encrypt>>)}
    /\ SigResults
    /\ sigPc' = "tampered"
    /\ UNCHANGED <<sigSent, cfgVars, padVars, codecVars, pushVars, multiVars, phoneVars, tokenVars>>

SigNext == VerifyCall \/ TamperedVerify

SpecSig == SigInit /\ [][SigNext]_vars

-----------------------------------------------------------------------------
(* Dispatcher: one HandlePushMessage call on a receiver                    *)

\* keys of the receivers the dispatcher is run with
PushKeySeeds == {ValidKeySeed, InvalidKeySeed}

Init ==
    /\ receiver \in {r \in Receivers : r.EncodingAESKey \in PushKeySeeds}
    /\ intBits \in IntWidths
    /\ call = IdleCall
    /\ PadIdle
    /\ CodecIdle
    /\ SigIdle
    /\ MultiIdle
    /\ PhoneIdle
    /\ TokenIdle

\* receiver.HandlePushMessage(parameterFetcher, body, handler) is called
Call ==
    /\ call.pc = "idle"
    /\ \E req \in Requests(receiver.Token, receiver.DataType) : call' = NewCall(req)
    /\ UNCHANGED <<cfgVars, padVars, codecVars, sigVars, multiVars, phoneVars, tokenVars>>

Dispatch ==
    /\ call.pc = "start"
    /\ call' = HandlePushMessage(receiver, call)
    /\ UNCHANGED <<cfgVars, padVars, codecVars, sigVars, multiVars, phoneVars, tokenVars>>

SecureUnmarshal ==
    /\ call.pc = "s_unmarshal"
    /\ call' = secureUnmarshal(receiver, call)
    /\ UNCHANGED <<cfgVars, padVars, codecVars, sigVars, multiVars, phoneVars, tokenVars>>

SecureVerify ==
    /\ call.pc = "s_verify"
    /\ call' = secureVerify(receiver, call)
    /\ UNCHANGED <<cfgVars, padVars, codecVars, sigVars, multiVars, phoneVars, tokenVars>>

SecureDecrypt ==
    /\ call.pc = "s_decrypt"
    /\ call' = secureDecrypt(receiver, intBits, call)
    /\ UNCHANGED <<cfgVars, padVars, codecVars, sigVars, multiVars, phoneVars, tokenVars>>

SecureParse ==
    /\ call.pc = "s_parse"
    /\ call' = secureParse(receiver, call)
    /\ UNCHANGED <<cfgVars, padVars, codecVars, sigVars, multiVars, phoneVars, tokenVars>>

SecureHandler ==
    /\ call.pc = "s_handler"
    /\ call' = secureHandler(receiver, call)
    /\ UNCHANGED <<cfgVars, padVars, codecVars, sigVars, multiVars, phoneVars, tokenVars>>

SecureEncrypt ==
    /\ call.pc = "s_encrypt"
    /\ call' = secureEncrypt(receiver, call)
    /\ UNCHANGED <<cfgVars, padVars, codecVars, sigVars, multiVars, phoneVars, tokenVars>>

PlainVerify ==
    /\ call.pc = "p_verify"
    /\ call' = plainVerify(receiver, call)
    /\ UNCHANGED <<cfgVars, padVars, codecVars, sigVars, multiVars, phoneVars, tokenVars>>

PlainParse ==
    /\ call.pc = "p_parse"
    /\ call' = plainParse(receiver, call)
    /\ UNCHANGED <<cfgVars, padVars, codecVars, sigVars, multiVars, phoneVars, tokenVars>>

PlainHandler ==
    /\ call.pc = "p_handler"
    /\ call' = plainHandler(receiver, call)
    /\ UNCHANGED <<cfgVars, padVars, codecVars, sigVars, multiVars, phoneVars, tokenVars>>

Next ==
    \/ Call
    \/ Dispatch
    \/ SecureUnmarshal
    \/ SecureVerify
    \/ SecureDecrypt
    \/ SecureParse
    \/ SecureHandler
    \/ SecureEncrypt
    \/ PlainVerify
    \/ PlainParse
    \/ PlainHandler

Spec == Init /\ [][Next]_vars

-----------------------------------------------------------------------------
(* Several HandlePushMessage calls on one receiver                         *)

\* the step a call at position k.pc takes next
StepOf(c, bits, k) ==
    CASE k.pc = "start"       -> HandlePushMessage(c, k)
      [] k.pc = "s_unmarshal" -> secureUnmarshal(c, k)
      [] k.pc = "s_verify"    -> secureVerify(c, k)
      [] k.pc = "s_decrypt"   -> secureDecrypt(c, bits, k)
      [] k.pc = "s_parse"     -> secureParse(c, k)
      [] k.pc = "s_handler"   -> secureHandler(c, k)
      [] k.pc = "s_encrypt"   -> secureEncrypt(c, k)
      [] k.pc = "p_verify"    -> plainVerify(c, k)
      [] k.pc = "p_parse"     -> plainParse(c, k)
      [] k.pc = "p_handler"   -> plainHandler(c, k)
      [] OTHER                -> k

\* the call has steps left to take
Running(k) == k.pc \notin {"idle", "done", "crashed"}

\* what the caller of a completed call observes: the two results, and the
\* invocations of its handler
Outcome(k) == [response |-> k.response, err |-> k.err, handlerCalls |-> k.handlerCalls]

RECURSIVE RunFrom(_, _, _)
\* the call k run to its end with no other call in progress
RunFrom(c, bits, k) == IF Running(k) THEN RunFrom(c, bits, StepOf(c, bits, k)) ELSE k

\* receiver.HandlePushMessage on req, from entry to return
RunAlone(c, bits, req) == RunFrom(c, bits, NewCall(req))

\* variant with a replay cache of one entry: a request whose timestamp and
\* nonce are those of the call accepted just before is refused
FreshCallRejectsSeen(prev, req) ==
    IF prev.err = <<>> /\ prev.req.timestamp = req.timestamp /\ prev.req.nonce = req.nonce
    THEN Fail(NewCall(req), <<"replayed request">>)
    ELSE NewCall(req)

\* the call that starts on req after the call prev has returned: its
\* locals and named results are its own, the receiver keeps nothing of prev
FreshCall(prev, req) == NewCall(req)

ReplayInit ==
    /\ receiver \in {r \in Receivers : r.EncodingAESKey \in PushKeySeeds}
    /\ intBits \in IntWidths
    /\ call = IdleCall
    /\ call2 = IdleCall
    /\ log = <<>>
    /\ PadIdle
    /\ CodecIdle
    /\ SigIdle
    /\ PhoneIdle
    /\ TokenIdle

\* the first submission of a request
Submit ==
    /\ call.pc = "idle"
    /\ \E req \in Requests(receiver.Token, receiver.DataType) : call' = NewCall(req)
    /\ UNCHANGED <<call2, log, cfgVars, padVars, codecVars, sigVars, phoneVars, tokenVars>>

\* the call in progress takes its next step
ReplayStep ==
    /\ Running(call)
    /\ call' = StepOf(receiver, intBits, call)
    /\ UNCHANGED <<call2, log, cfgVars, padVars, codecVars, sigVars, phoneVars, tokenVars>>

\* the request of the call that has returned is submitted again, unchanged
Resubmit ==
    /\ call.pc = "done"
    /\ Len(log) < MaxReplays
    /\ log' = Append(log, Outcome(call))
    /\ call' = FreshCall(call, call.req)
    /\ UNCHANGED <<call2, cfgVars, padVars, codecVars, sigVars, phoneVars, tokenVars>>

ReplayNext == Submit \/ ReplayStep \/ Resubmit

SpecReplay == ReplayInit /\ [][ReplayNext]_vars

\* requests made at the same time: on either path, in either format, with a
\* good and a bad signature, a partial block, a replying and a panicking
\* handler
ConcRequests(token, dataType) ==
    {r \in Requests(token, dataType) :
        /\ r.fetcher = "ok"
        /\ r.signature = SignOf(<<token, Timestamp0, Nonce0>>)
        /\ r.handler \in {"reply", "panic"}
        /\ \/ /\ r.encrypt_type = PlainType
              /\ r.body \in {XmlMsg, JsonMsg}
              /\ r.msg_signature = InvalidSignature
              /\ r.handler = "reply"
           \/ /\ r.encrypt_type = AesType
              /\ \E e \in {B64Encode(Repeat(1, 17)),
                             SealFrame(LengthBytes(Len(XmlMsg)), XmlMsg, <<119, 120, 49>>),
                             SealFrame(LengthBytes(Len(JsonMsg)), JsonMsg, <<119, 120, 49>>)} :
                    /\ r.body \in {PlatformEnvelope("xml", e), PlatformEnvelope("json", e)}
                    /\ \/ r.msg_signature = SignOf(<<token, Timestamp0, Nonce0, e>>)
                       \/ r.msg_signature = InvalidSignature /\ r.handler = "reply"}

\* variant in which the first statement of a call stores the format of its
\* body in the receiver
ReceiverAfterAdoptsFormat(c, k) ==
    IF k.pc = "start" /\ Len(k.req.body) > 0 /\ k.req.body[1] = 123
    THEN [c EXCEPT !.DataType = "json"]
    ELSE c

\* the receiver after a step of the call k: HandlePushMessage and its
\* helpers read c.Token, c.EncodingAESKey and c.DataType and assign to no
\* field of c
ReceiverAfter(c, k) == c

ConcInit ==
    /\ receiver \in {r \in Receivers : r.EncodingAESKey = ValidKeySeed
                                        /\ r.SecurityMode = "secure"}
    /\ intBits \in IntWidths
    /\ call = IdleCall
    /\ call2 = IdleCall
    /\ log = <<>>
    /\ PadIdle
    /\ CodecIdle
    /\ SigIdle
    /\ PhoneIdle
    /\ TokenIdle

\* one goroutine calls receiver.HandlePushMessage
FirstCall ==
    /\ call.pc = "idle"
    /\ \E req \in ConcRequests(receiver.Token, receiver.DataType) : call' = NewCall(req)
    /\ UNCHANGED <<call2, log, cfgVars, padVars, codecVars, sigVars, phoneVars, tokenVars>>

\* another goroutine calls receiver.HandlePushMessage
SecondCall ==
    /\ call2.pc = "idle"
    /\ \E req \in ConcRequests(receiver.Token, receiver.DataType) : call2' = NewCall(req)
    /\ UNCHANGED <<call, log, cfgVars, padVars, codecVars, sigVars, phoneVars, tokenVars>>

\* the first call takes its next step
FirstStep ==
    /\ Running(call)
    /\ call' = StepOf(receiver, intBits, call)
    /\ receiver' = ReceiverAfter(receiver, call)
    /\ UNCHANGED <<call2, log, intBits, padVars, codecVars, sigVars, phoneVars, tokenVars>>

\* the second call takes its next step
SecondStep ==
    /\ Running(call2)
    /\ call2' = StepOf(receiver, intBits, call2)
    /\ receiver' = ReceiverAfter(receiver, call2)
    /\ UNCHANGED <<call, log, intBits, padVars, codecVars, sigVars, phoneVars, tokenVars>>

ConcNext == FirstCall \/ SecondCall \/ FirstStep \/ SecondStep

SpecConc == ConcInit /\ [][ConcNext]_vars

-----------------------------------------------------------------------------
(* Client.DecryptPhoneNumber (package vwxa): the IV is a separate argument *)

\* '{"phoneNumber":"' and '"}'
PhoneOpen == <<123, 34, 112, 104, 111, 110, 101, 78, 117, 109, 98, 101, 114, 34, 58, 34>>
PhoneClose == <<34, 125>>

\* a *PhoneInfo: nil, or the record with its PhoneNumber
NilInfo == [isNil |-> TRUE, PhoneNumber |-> <<>>]

PhoneInfo(number) == [isNil |-> FALSE, PhoneNumber |-> number]

\* json.Unmarshal(cipherText, &phoneInfo) on the document shapes the model
\* knows: [ok, PhoneNumber]; an object without the field leaves it empty
UnmarshalPhoneInfo(data) ==
    IF Wrapped(data, PhoneOpen, PhoneClose, JsonStop)
    THEN [ok |-> TRUE, PhoneNumber |-> Inner(data, PhoneOpen, PhoneClose)]
    ELSE IF Wrapped(data, <<123>>, <<125>>, {123, 125})
    THEN [ok |-> TRUE, PhoneNumber |-> <<>>]
    ELSE [ok |-> FALSE, PhoneNumber |-> <<>>]

\* return nil, err / a panic / return &phoneInfo, nil
PhoneErr(e) == [panicked |-> FALSE, info |-> NilInfo, err |-> <<e>>]

PhonePanic(v) == [panicked |-> TRUE, info |-> NilInfo, err |-> <<v>>]

PhoneOk(number) == [panicked |-> FALSE, info |-> PhoneInfo(number), err |-> <<>>]

\* the body of DecryptPhoneNumber: base64 of the three arguments, cipher,
\* CBC decrypt under the IV given (NewCBCDecrypter panics on an IV that is
\* not one block long, CryptBlocks on a partial block), unpad, unmarshal
decryptPhoneNumberBody(sessionKey, encryptedData, iv) ==
    LET key == B64Decode(sessionKey)
        cipherText == B64Decode(encryptedData)
        ivBytes == B64Decode(iv)
    IN  IF ~key.ok THEN PhoneErr("illegal base64 data")
        ELSE IF ~cipherText.ok THEN PhoneErr("illegal base64 data")
        ELSE IF ~ivBytes.ok THEN PhoneErr("illegal base64 data")
        ELSE IF ~AesKeyOk(key.bytes) THEN PhoneErr("crypto/aes: invalid key size")
        ELSE IF Len(ivBytes.bytes) # BlockSize
             THEN PhonePanic("cipher.NewCBCDecrypter: IV length must equal block size")
        ELSE IF ~FullBlocks(cipherText.bytes)
             THEN PhonePanic("crypto/cipher: input not full blocks")
        ELSE LET unpadded == pkcs7Unpad(CbcDecrypt(key.bytes, ivBytes.bytes,
                                                   cipherText.bytes))
             IN  IF unpadded.isNil THEN PhoneErr("unpad failed")
                 ELSE LET phoneInfo == UnmarshalPhoneInfo(unpadded.bytes)
                      IN  IF ~phoneInfo.ok THEN PhoneErr("invalid character")
                          ELSE PhoneOk(phoneInfo.PhoneNumber)

\* variant without the deferred recover
DecryptPhoneNumberNoRecover(sessionKey, encryptedData, iv) ==
    decryptPhoneNumberBody(sessionKey, encryptedData, iv)

\* DecryptPhoneNumber: the deferred function turns a panic v into _err,
\* the named result _info keeps its zero value
DecryptPhoneNumber(sessionKey, encryptedData, iv) ==
    LET o == decryptPhoneNumberBody(sessionKey, encryptedData, iv)
    IN  IF o.panicked
        THEN [panicked |-> FALSE, info |-> NilInfo,
              err |-> <<"decrypt phone number error">> \o o.err]
        ELSE o

\* the 16-byte session key "0123456789abcdef" and its base64 text
SessionKeyBytes == B64Decode(Aes128KeySeed \o <<PadChar>>).bytes

SessionKeys ==
    { B64Encode(SessionKeyBytes),      \* a 16-byte key
      InvalidKeySeed,                  \* not base64
      B64Encode(<<97, 98, 99>>) }      \* a 3-byte key

\* '{"phoneNumber":"13800"}'
PhoneJson == PhoneOpen \o <<49, 51, 56, 48, 48>> \o PhoneClose

PhoneIVs ==
    { B64Encode(PlatformIV),           \* 16 bytes
      B64Encode(Repeat(5, 8)),         \* 8 bytes
      <<>>,                            \* no bytes
      <<33, 33, 33, 33>> }             \* not base64

\* CBC(plain) in base64 under the session key: the IV is not part of it
SealPhone(iv, plain) == B64Encode(CbcEncrypt(SessionKeyBytes, iv, plain))

PhoneCiphers ==
    { SealPhone(PlatformIV, pkcs7Pad(PhoneJson, BlockSize)),
      SealPhone(PlatformIV, pkcs7Pad(<<123, 125>>, BlockSize)),
      SealPhone(PlatformIV, pkcs7Pad(Garbage, BlockSize)),      \* not JSON
      SealPhone(PlatformIV, Repeat(9, 14) \o <<3, 2>>),         \* padding bytes 3, 2
      SealPhone(PlatformIV, Repeat(17, 16)),                    \* padding byte 17 > 16
      SealPhone(PlatformIV, Repeat(9, 15) \o <<0>>),            \* padding byte 0
      SealPhone(PlatformIV, <<123, 125>> \o Repeat(32, 13) \o <<0>>),  \* "{}", blanks, 0
      B64Encode(PlatformIV
                  \o CbcEncrypt(SessionKeyBytes, PlatformIV,
                                pkcs7Pad(PhoneJson, BlockSize))),  \* IV || ciphertext
      B64Encode(Repeat(1, 17)),                                 \* a partial block
      <<>>,                                                     \* no bytes
      <<33, 33, 33, 33>> }                                      \* not base64

PhoneInit ==
    /\ phonePc = "init"
    /\ phoneIn \in [sessionKey : SessionKeys, encryptedData : PhoneCiphers, iv : PhoneIVs]
    /\ phoneOut = [panicked |-> FALSE, info |-> <<>>, err |-> ""]
    /\ CfgIdle
    /\ PadIdle
    /\ CodecIdle
    /\ PushIdle
    /\ SigIdle
    /\ MultiIdle
    /\ TokenIdle

\* phoneInfo, err := c.DecryptPhoneNumber(sessionKey, encryptedData, iv)
PhoneCall ==
    /\ phonePc = "init"
    /\ phoneOut' = DecryptPhoneNumber(phoneIn.sessionKey, phoneIn.encryptedData, phoneIn.iv)
    /\ phonePc' = "returned"
    /\ UNCHANGED <<phoneIn, cfgVars, padVars, codecVars, pushVars, sigVars, multiVars,
                   tokenVars>>

PhoneNext == PhoneCall

SpecPhone == PhoneInit /\ [][PhoneNext]_vars

-----------------------------------------------------------------------------
(* Client.GetAccessToken (package vwxa) and its cache provider             *)

\* seconds taken off expires_in for the expiry of the cache entry
ExpireMargin == 300

\* no entry under cacheKeyAccessToken(): Get returns ""
NoEntry == [value |-> <<>>, expire |-> 0]

\* what http.Get and json.Unmarshal make of a call of the token endpoint:
\* a transport error, a body that is not JSON, or the decoded result
TokenResponse(transport, json, errcode, errmsg, token, expires) ==
    [transport |-> transport, json |-> json, ErrCode |-> errcode, ErrMsg |-> errmsg,
     AccessToken |-> token, ExpiresIn |-> expires]

TokenResponses ==
    { TokenResponse("error", FALSE, 0, "", <<>>, 0),
      TokenResponse("ok", FALSE, 0, "", <<>>, 0),
      TokenResponse("ok", TRUE, 40013, "invalid appid", <<>>, 0),
      TokenResponse("ok", TRUE, 40001, "invalid credential", <<88>>, 7200),
      TokenResponse("ok", TRUE, 0, "", <<65>>, 7200),
      TokenResponse("ok", TRUE, 0, "", <<66>>, 7200),
      TokenResponse("ok", TRUE, 0, "", <<65>>, 100),
      TokenResponse("ok", TRUE, 0, "", <<>>, 0) }

\* a GetAccessToken call as seen from outside, and the cache after it
TokenReturn(kind, token, err, contacted, setFailed, cacheAfter) ==
    [last |-> [kind |-> kind, token |-> token, err |-> err, contacted |-> contacted,
               setFailed |-> setFailed],
     cache |-> cacheAfter]

\* variant that writes the cache before it looks at errcode
GetAccessTokenCachesErrors(c, cached, resp, setOk) ==
    IF c.hasCache /\ cached.value # <<>>
    THEN TokenReturn("hit", cached.value, "", FALSE, FALSE, cached)
    ELSE IF resp.transport # "ok"
    THEN TokenReturn("http error", <<>>, "http get failed", TRUE, FALSE, cached)
    ELSE IF ~resp.json
    THEN TokenReturn("json error", <<>>, "invalid character", TRUE, FALSE, cached)
    ELSE LET written == IF c.hasCache /\ setOk
                        THEN [value |-> resp.AccessToken,
                              expire |-> resp.ExpiresIn - ExpireMargin]
                        ELSE cached
         IN  IF resp.ErrCode # 0
             THEN TokenReturn("api error", <<>>, resp.ErrMsg, TRUE, FALSE, written)
             ELSE TokenReturn("fetched", resp.AccessToken, "", TRUE,
                              c.hasCache /\ ~setOk, written)

\* GetAccessToken: a non-empty cached value is returned at once; otherwise
\* the endpoint is called, and a result with errcode 0 is written to the
\* cache with expiry expires_in - 300 s (a failed Set is logged and leaves
\* the entry as it was) and returned
GetAccessToken(c, cached, resp, setOk) ==
    IF c.hasCache /\ cached.value # <<>>
    THEN TokenReturn("hit", cached.value, "", FALSE, FALSE, cached)
    ELSE IF resp.transport # "ok"
    THEN TokenReturn("http error", <<>>, "http get failed", TRUE, FALSE, cached)
    ELSE IF ~resp.json
    THEN TokenReturn("json error", <<>>, "invalid character", TRUE, FALSE, cached)
    ELSE IF resp.ErrCode # 0
    THEN TokenReturn("api error", <<>>, resp.ErrMsg, TRUE, FALSE, cached)
    ELSE IF ~c.hasCache
    THEN TokenReturn("fetched", resp.AccessToken, "", TRUE, FALSE, cached)
    ELSE IF ~setOk
    THEN TokenReturn("fetched", resp.AccessToken, "", TRUE, TRUE, cached)
    ELSE TokenReturn("fetched", resp.AccessToken, "", TRUE, FALSE,
                     [value |-> resp.AccessToken,
                      expire |-> resp.ExpiresIn - ExpireMargin])

TokenInit ==
    /\ client \in [hasCache : BOOLEAN]
    /\ cache = NoEntry
    /\ tokLast = [kind |-> "none", token |-> <<>>, err |-> "", contacted |-> FALSE,
                  setFailed |-> FALSE]
    /\ issued = {}
    /\ tokCalls = 0
    /\ CfgIdle
    /\ PadIdle
    /\ CodecIdle
    /\ PushIdle
    /\ SigIdle
    /\ MultiIdle
    /\ PhoneIdle

\* token, err := c.GetAccessToken(), the endpoint answering resp if it is
\* called and the cache provider accepting the write or not
GetAccessTokenCall ==
    /\ tokCalls < MaxTokenCalls
    /\ \E resp \in TokenResponses, setOk \in BOOLEAN :
          LET r == GetAccessToken(client, cache, resp, setOk)
          IN  /\ tokLast' = r.last
              /\ cache' = r.cache
              /\ issued' = IF r.last.contacted /\ resp.transport = "ok" /\ resp.json
                               /\ resp.ErrCode = 0
                            THEN issued \cup {[token |-> resp.AccessToken,
                                               expires_in |-> resp.ExpiresIn]}
                            ELSE issued
    /\ tokCalls' = tokCalls + 1
    /\ UNCHANGED <<client, cfgVars, padVars, codecVars, pushVars, sigVars, multiVars,
                   phoneVars>>

\* the cache provider drops the entry when its expiry has passed
CacheExpire ==
    /\ cache # NoEntry
    /\ cache' = NoEntry
    /\ UNCHANGED <<client, tokLast, issued, tokCalls, cfgVars, padVars, codecVars,
                   pushVars, sigVars, multiVars, phoneVars>>

TokenNext == GetAccessTokenCall \/ CacheExpire

SpecToken == TokenInit /\ [][TokenNext]_vars

-----------------------------------------------------------------------------
(* Claims about the dispatcher                                             *)

IsPrefix(p, q) == Len(p) <= Len(q) /\ SubSeq(q, 1, Len(p)) = p

Contains(q, x) == \E i \in 1..Len(q) : q[i] = x

\* the envelope the body of the call deserialises to
CallEnvelope == UnmarshalEncrypted(receiver.DataType, call.req.body)

\* the digest the platform's rule gives for the parameters of the call
PlainDigest == SignOf(<<receiver.Token, call.req.timestamp, call.req.nonce>>)

MsgDigest ==
    SignOf(<<receiver.Token, call.req.timestamp, call.req.nonce, CallEnvelope.Encrypt>>)

\* the signature that applies to the path taken differs from the digest
SignatureMismatch ==
    \/ call.path = "plain" /\ call.req.signature # PlainDigest
    \/ call.path = "secure" /\ CallEnvelope.ok /\ call.req.msg_signature # MsgDigest

\* C2: HandlePushMessage returns a non-nil error and never invokes the
\* handler whenever the applicable signature differs from the computed
\* digest: signature over {token, timestamp, nonce} on the plain path,
\* msg_signature over {token, timestamp, nonce, Encrypt} on the secure path.
C2_SignatureMismatchRejected ==
    SignatureMismatch =>
        /\ call.handlerCalls = <<>>
        /\ call.pc \notin {"s_decrypt", "s_parse", "s_handler", "s_encrypt",
                           "p_parse", "p_handler", "crashed"}
        /\ call.pc = "done" => (call.err # <<>> /\ call.response.isNil)

C2_Witness ==
    /\ call.pc = "done"
    /\ call.path = "secure"
    /\ call.req.signature = PlainDigest
    /\ call.req.msg_signature # MsgDigest
    /\ CallEnvelope.Encrypt \in GoodCipherInputs
    /\ call.req.handler = "reply"
    /\ call.err = <<"invalid message signature">>

\* the steps of the secure path that come before the handler
SecureSteps == <<"unmarshal", "verify", "decrypt", "frame", "parse">>

\* what decryptMessage makes of the envelope of the call
CallDecrypted == decryptMessage(receiver, CallEnvelope.Encrypt, intBits)

\* deserialisation, signature, decryption, frame and base info are all good
SecureInputGood ==
    /\ CallEnvelope.ok
    /\ call.req.msg_signature = MsgDigest
    /\ ~CallDecrypted.panicked
    /\ CallDecrypted.err = ""
    /\ parseBaseInfo(receiver, CallDecrypted.message)

\* C3: on the secure path the handler is invoked only after envelope
\* deserialisation, signature verification, decryption with unpadding, frame
\* parsing and base-info parsing have all succeeded, in that order; if one
\* of them fails the call returns an error, the handler is never invoked
\* and no response bytes are returned.
C3_SecureOrder ==
    call.path = "secure" =>
        /\ IsPrefix(call.steps, SecureSteps) \/ IsPrefix(SecureSteps, call.steps)
        /\ call.handlerCalls # <<>> =>
              /\ IsPrefix(SecureSteps \o <<"handler">>, call.steps)
              /\ SecureInputGood
              /\ call.handlerCalls = << [appid |-> CallDecrypted.appid,
                                         data |-> CallDecrypted.message] >>
        /\ (call.pc = "done" /\ ~(SecureInputGood /\ IsPrefix(SecureSteps, call.steps))) =>
              /\ call.err # <<>>
              /\ call.handlerCalls = <<>>
              /\ call.response.isNil

C3_Witness ==
    /\ call.pc = "done"
    /\ call.path = "secure"
    /\ call.req.handler = "reply"
    /\ call.steps = <<"unmarshal", "verify", "decrypt", "frame">>
    /\ call.err = <<"parse base info failed">>
    /\ call.handlerCalls = <<>>
    /\ call.response.isNil

\* the transport indicates encryption and there is a body
SecureRequested == call.req.encrypt_type = AesType /\ Len(call.req.body) > 0

\* C4: HandlePushMessage takes the secure path exactly when encrypt_type is
\* "aes" and the body is non-empty; in every other case (another
\* encrypt_type, an empty body even with "aes") it takes the plain path.
C4_PathChoice ==
    (call.pc \notin {"idle", "start"} /\ call.req.fetcher = "ok") =>
        /\ call.path \in {"secure", "plain"}
        /\ call.path = "secure" <=> SecureRequested
        /\ call.pc \in {"s_unmarshal", "s_verify", "s_decrypt", "s_parse",
                        "s_handler", "s_encrypt"} => SecureRequested
        /\ call.pc \in {"p_verify", "p_parse", "p_handler"} => ~SecureRequested
        /\ (call.pc = "done" /\ ~SecureRequested) => ~Contains(call.steps, "unmarshal")

C4_Witness ==
    /\ call.pc = "done"
    /\ call.req.encrypt_type = AesType
    /\ call.req.body = <<>>
    /\ call.req.signature = PlainDigest
    /\ call.path = "plain"
    /\ call.steps = <<"verify">>
    /\ call.err = <<>>

\* the request raises a fault once the call has come far enough
FaultyInput ==
    \/ call.req.fetcher # "ok"
    \/ /\ call.req.handler \in {"nil", "panic"}
       /\ Contains(call.steps, "parse")
    \/ /\ call.path = "secure"
       /\ Contains(call.steps, "verify")
       /\ DecKeyOf(receiver)
       /\ LET raw == B64Decode(call.encrypt)
          IN  raw.ok /\ Len(raw.bytes) >= BlockSize /\ ~FullBlocks(raw.bytes)

\* the positions of a call; each but "done" has a step that leaves it
CallPositions ==
    {"idle", "start", "s_unmarshal", "s_verify", "s_decrypt", "s_parse", "s_handler",
     "s_encrypt", "p_verify", "p_parse", "p_handler", "done"}

\* C5: for every input on which a fault is raised (a ciphertext that is not
\* a whole number of blocks, a nil or panicking handler, any other fault
\* during parsing or decryption) the call returns normally with a non-nil
\* error; no panic escapes the dispatcher.
C5_NoPanicEscapes ==
    /\ call.pc # "crashed"
    /\ call.pc \in CallPositions
    /\ (call.pc = "done" /\ (call.fault # "" \/ FaultyInput)) =>
          /\ call.fault # ""
          /\ call.err # <<>>
          /\ call.response.isNil

C5_Witness ==
    /\ call.pc = "done"
    /\ call.fault = "crypto/cipher: input not full blocks"
    /\ call.steps = <<"unmarshal", "verify">>
    /\ call.err = <<"handle push message error", "crypto/cipher: input not full blocks">>

-----------------------------------------------------------------------------
(* Claims about the envelope codec                                         *)

\* C1: round trip.  For every payload p and account id a, decrypting the
\* Encrypt field of the envelope produced by encryptResponse(a, p), under the
\* same key seed, returns exactly (p, a) and no error.
C1_RoundTrip ==
    codecPc = "roundtrip" =>
        /\ UnmarshalEncrypted(receiver.DataType, encOut.bytes.bytes).ok
        /\ decOut = DecOk(encData, encAppID)

C1_Witness ==
    /\ codecPc = "roundtrip"
    /\ receiver.EncodingAESKey = ValidKeySeed
    /\ encData = TestResponse
    /\ Len(encAppID) = 11
    /\ decOut.err = ""
    /\ decOut.message = TestResponse
    /\ decOut.appid = encAppID

\* the decoded ciphertext handed to decryptMessage, when the key is usable
DecRaw == B64Decode(decIn)

DecKeyUsable == DecKeyOf(receiver)

\* the error kinds decryptMessage names for bad base64, a short ciphertext
\* and bad padding
NamedDecErrors == {"base64 decode failed", "cipher text too short", "pkcs7 unpad failed"}

\* C6 (as stated): decryptMessage reports malformed base64, a ciphertext
\* shorter than one block, a ciphertext that is not a whole number of
\* blocks, and a padding failure each as a distinct returned error, and
\* never panics.
C6_DecryptFailuresAreErrors ==
    (codecPc = "decrypted" /\ DecKeyUsable) =>
        /\ ~DecRaw.ok => (~decOut.panicked /\ decOut.err = "base64 decode failed")
        /\ (DecRaw.ok /\ Len(DecRaw.bytes) < BlockSize)
              => (~decOut.panicked /\ decOut.err = "cipher text too short")
        /\ (DecRaw.ok /\ Len(DecRaw.bytes) >= BlockSize /\ ~FullBlocks(DecRaw.bytes))
              => (~decOut.panicked /\ decOut.err # "" /\ decOut.err \notin NamedDecErrors)
        /\ (DecRaw.ok /\ Len(DecRaw.bytes) >= BlockSize /\ FullBlocks(DecRaw.bytes)
              /\ pkcs7Unpad(CbcDecrypt(ValidKey, SubSeq(DecRaw.bytes, 1, BlockSize),
                    SubSeq(DecRaw.bytes, BlockSize + 1, Len(DecRaw.bytes)))).isNil
              /\ receiver.EncodingAESKey = ValidKeySeed)
              => (~decOut.panicked /\ decOut.err = "pkcs7 unpad failed")

-----------------------------------------------------------------------------
(* Claims about the padding codec                                          *)

\* C7 (as stated): unpad fails whenever the last byte of its input, the
\* declared padding length, is 0.
C7_UnpadRejectsZero ==
    (padPc = "unpadded" /\ Len(padData) > 0 /\ Last(padData) = 0)
        => unpadOut.isNil

\* the last n bytes of data, n being its last byte, are not all n
InconsistentTail(data) ==
    LET n == Last(data)
    IN  \E i \in (Len(data) - n + 1)..Len(data) : data[i] # n

\* C8: unpad returns nil for empty input, for a declared padding length
\* greater than the input length, and for an input one of whose last n
\* bytes differs from n.
C8_UnpadRejects ==
    padPc = "unpadded" =>
        /\ padData = <<>> => unpadOut.isNil
        /\ (padData # <<>> /\ Last(padData) > Len(padData)) => unpadOut.isNil
        /\ (padData # <<>> /\ Last(padData) <= Len(padData) /\ InconsistentTail(padData))
              => unpadOut.isNil

C8_Witness ==
    /\ padPc = "unpadded"
    /\ padData = <<1, 2, 3, 4, 5, 3, 2, 3>>
    /\ unpadOut.isNil

\* unpad(pad(data, n)) succeeded and gave back data
RoundTripOk == ~unpadOut.isNil /\ unpadOut.bytes = padData

\* C9 (as stated): for every data and every block size n,
\* unpad(pad(data, n)) succeeds and equals data.
C9_RoundTripAnyBlock == padPc = "roundtrip" => RoundTripOk

\* C9 (amended): for every data and every block size 1 <= n <= 255,
\* unpad(pad(data, n)) succeeds and equals data.
C9_RoundTripByteBlock ==
    (padPc = "roundtrip" /\ padBlock \in 1..255) => RoundTripOk

C9_Witness ==
    /\ padPc = "roundtrip"
    /\ padBlock = 16
    /\ padData = <<104, 101, 108, 108, 111, 32, 119, 111, 114, 108, 100, 49, 50, 51, 52, 53>>
    /\ Len(padOut) = 32
    /\ RoundTripOk

\* the padding length the claim names
PadLen(data, blockSize) == blockSize - (Len(data) % blockSize)

\* the result is longer than the data and fills whole blocks
PadShape ==
    /\ Len(padOut) = Len(padData) + PadLen(padData, padBlock)
    /\ SubSeq(padOut, 1, Len(padData)) = padData
    /\ Len(padOut) > Len(padData)
    /\ (Len(padOut) % padBlock) = 0

\* C10 (as stated): pad returns data followed by exactly
\* n = blockSize - (len(data) mod blockSize) bytes each of value n, so the
\* result is strictly longer than data and a multiple of blockSize long.
C10_PadBytesAreN ==
    padPc = "padded" =>
        /\ PadShape
        /\ \A i \in (Len(padData) + 1)..Len(padOut) :
              padOut[i] = PadLen(padData, padBlock)

\* C10 (amended): as stated, except that each appended byte has the value
\* n mod 256 (which is n whenever blockSize <= 255).
C10_PadBytesAreNMod256 ==
    padPc = "padded" =>
        /\ PadShape
        /\ \A i \in (Len(padData) + 1)..Len(padOut) :
              padOut[i] = (PadLen(padData, padBlock) % 256)
        /\ padBlock <= 255 =>
              \A i \in (Len(padData) + 1)..Len(padOut) :
                  padOut[i] = PadLen(padData, padBlock)

C10_Witness ==
    /\ padPc = "padded"
    /\ padBlock = 8
    /\ padData = <<104, 101, 108, 108, 111>>
    /\ padOut = <<104, 101, 108, 108, 111, 3, 3, 3>>

\* the buffer handed to pkcs7Unpad by the step that led to the current position
UnpadInput == IF padPc = "roundtrip" THEN padOut ELSE padData

\* C11: whenever unpad succeeds on data whose last byte is n, the result is
\* exactly data without its last n bytes: the first len-n bytes, unaltered.
C11_UnpadStripsExactlyN ==
    (padPc \in {"unpadded", "roundtrip"} /\ ~unpadOut.isNil) =>
        LET data == UnpadInput
            n == Last(data)
        IN  /\ Len(unpadOut.bytes) = Len(data) - n
            /\ \A i \in 1..(Len(data) - n) : unpadOut.bytes[i] = data[i]

C11_Witness ==
    /\ padPc = "unpadded"
    /\ padData = <<1, 2, 3, 4, 5, 3, 3, 3>>
    /\ ~unpadOut.isNil
    /\ unpadOut.bytes = <<1, 2, 3, 4, 5>>

-----------------------------------------------------------------------------
(* Claims about signature verification                                     *)

\* the arrangements of params that are in lexicographic (byte) order
SortedArrangements(params) ==
    {q \in Arrangements(params) :
        \A i \in 1..Len(q) : \A j \in (i + 1)..Len(q) : ~StrLess(q[j], q[i])}

\* signature is the digest of the concatenation, without separator, of the
\* lexicographically sorted params
IsDigestOfSorted(signature, params) ==
    \E q \in SortedArrangements(params) : signature = Sha1Hex(Join(q))

\* C12: verifySignature returns true if and only if the supplied signature
\* is the SHA-1 digest of the concatenation of sorted {token, timestamp,
\* nonce}; verifyMsgSignature likewise with {token, timestamp, nonce,
\* encrypt}; "invalid-signature" yields false.
C12_VerifyIffDigestOfSorted ==
    sigPc = "verified" =>
        /\ sigOut.plain =
              IsDigestOfSorted(sigGiven, <<sigArgs.token, sigArgs.timestamp, sigArgs.nonce>>)
        /\ sigOut.msg =
              IsDigestOfSorted(sigGiven, <<sigArgs.token, sigArgs.timestamp, sigArgs.nonce,
                                          sigArgs.encrypt>>)
        /\ sigGiven = InvalidSignature => (~sigOut.plain /\ ~sigOut.msg)

\* token "t0k", timestamp "12", nonce "3": the digest of "123t0k" verifies
C12_Witness ==
    /\ sigPc = "verified"
    /\ sigArgs.token = Token0 /\ sigArgs.timestamp = Timestamp0 /\ sigArgs.nonce = Nonce0
    /\ sigGiven = Sha1Hex(<<49, 50, 51, 116, 48, 107>>)
    /\ sigOut.plain
    /\ ~sigOut.msg

\* the field in which sigArgs differs from sigSent
TamperedField(f) == sigArgs[f] # sigSent[f]

\* C13: a signature that verifies for (token, timestamp, nonce, ciphertext)
\* no longer verifies once a single byte of timestamp, nonce or ciphertext
\* is replaced by a different byte; on the plain path the same holds for
\* timestamp and nonce.
C13_TamperingRejected ==
    sigPc = "tampered" =>
        /\ sigGiven = SignOf(<<sigSent.token, sigSent.timestamp, sigSent.nonce,
                               sigSent.encrypt>>)
              => ~sigOut.msg
        /\ (/\ sigGiven = SignOf(<<sigSent.token, sigSent.timestamp, sigSent.nonce>>)
            /\ ~TamperedField("encrypt"))
              => ~sigOut.plain

C13_Witness ==
    /\ sigPc = "tampered"
    /\ TamperedField("encrypt")
    /\ sigGiven = SignOf(<<sigSent.token, sigSent.timestamp, sigSent.nonce, sigSent.encrypt>>)
    /\ verifyMsgSignature(receiver, sigSent.token, sigSent.timestamp, sigSent.nonce,
                          sigSent.encrypt, sigGiven)
    /\ ~sigOut.msg

-----------------------------------------------------------------------------
(* Claims about the responses of the dispatcher                            *)

\* sub occurs in doc
Occurs(doc, sub) ==
    \E i \in 1..(Len(doc) - Len(sub) + 1) : SubSeq(doc, i, i + Len(sub) - 1) = sub

\* where sub first occurs in doc
FirstAt(doc, sub) ==
    CHOOSE i \in 1..(Len(doc) - Len(sub) + 1) :
        /\ SubSeq(doc, i, i + Len(sub) - 1) = sub
        /\ \A j \in 1..(i - 1) : SubSeq(doc, j, j + Len(sub) - 1) # sub

\* the text between the first open and the close that follows it, empty
\* when doc has no such element
ElementText(doc, open, close) ==
    IF ~Occurs(doc, open) THEN <<>>
    ELSE LET rest == SubSeq(doc, FirstAt(doc, open) + Len(open), Len(doc))
         IN  IF Occurs(rest, close) THEN SubSeq(rest, 1, FirstAt(rest, close) - 1)
             ELSE <<>>

\* the text of the field called name in a response document
WireField(dataType, doc, name) ==
    IF dataType = "json"
    THEN ElementText(doc, <<34>> \o name \o <<34, 58, 34>>, <<34>>)
    ELSE ElementText(doc, <<60>> \o name \o <<62>>, <<60, 47>> \o name \o <<62>>)

\* the wire envelope a platform reads from the bytes returned
WireEnvelope(dataType, doc) ==
    [Encrypt      |-> WireField(dataType, doc, <<69, 110, 99, 114, 121, 112, 116>>),
     MsgSignature |-> WireField(dataType, doc,
                        <<77, 115, 103, 83, 105, 103, 110, 97, 116, 117, 114, 101>>),
     TimeStamp    |-> WireField(dataType, doc, <<84, 105, 109, 101, 83, 116, 97, 109, 112>>),
     Nonce        |-> WireField(dataType, doc, <<78, 111, 110, 99, 101>>)]

\* the call took the secure path and returned without error
SecureSuccess == call.pc = "done" /\ call.path = "secure" /\ call.err = <<>>

\* C14: every successful secure-path response is a wire envelope carrying,
\* besides Encrypt, a MsgSignature, TimeStamp and Nonce such that
\* verifyMsgSignature(token, TimeStamp, Nonce, Encrypt, MsgSignature) is true.
C14_ResponseSigned ==
    SecureSuccess =>
        LET w == WireEnvelope(receiver.DataType, call.response.bytes)
        IN  /\ w.Encrypt # <<>>
            /\ w.MsgSignature # <<>>
            /\ w.TimeStamp # <<>>
            /\ w.Nonce # <<>>
            /\ verifyMsgSignature(receiver, receiver.Token, w.TimeStamp, w.Nonce,
                                  w.Encrypt, w.MsgSignature)

\* what the handler of the call returns when handed the decrypted message
CallHandlerResponse ==
    HandlerOutcome(call.req.handler, CallDecrypted.appid, CallDecrypted.message).resp.bytes

\* the bytes the response stands for: the handler's, or "success"
ExpectedPlaintext(resp) == IF Len(resp) = 0 THEN SuccessBytes ELSE resp

\* C15: on the secure path, when the handler succeeds the returned bytes
\* are an encrypted envelope, never the handler's plaintext: the Encrypt
\* field decrypts under the same credentials to the handler's response, or
\* to "success" when the handler returned an empty one, together with the
\* account identifier recovered from the inbound frame.
C15_ResponseEncrypted ==
    SecureSuccess =>
        LET env == UnmarshalEncrypted(receiver.DataType, call.response.bytes)
            expected == ExpectedPlaintext(CallHandlerResponse)
        IN  /\ call.req.handler \in {"reply", "empty"}
            /\ ~call.response.isNil
            /\ env.ok
            /\ env.Encrypt # <<>>
            /\ ~Occurs(call.response.bytes, expected)
            /\ decryptMessage(receiver, env.Encrypt, intBits)
                  = DecOk(expected, CallDecrypted.appid)

C15_Witness ==
    /\ SecureSuccess
    /\ call.req.handler = "empty"
    /\ receiver.DataType = "json"
    /\ CallDecrypted.appid # <<>>
    /\ LET env == UnmarshalEncrypted(receiver.DataType, call.response.bytes)
       IN  decryptMessage(receiver, env.Encrypt, intBits).message = SuccessBytes

\* the call took the plain path with a valid signature and a parseable,
\* non-empty body
PlainInputGood ==
    /\ call.path = "plain"
    /\ call.req.signature = PlainDigest
    /\ Len(call.req.body) > 0
    /\ parseBaseInfo(receiver, call.req.body)

\* C16: on the plain path with a valid signature and a parseable non-empty
\* body, the handler is invoked with an empty account identifier and the
\* raw body, and the call returns the handler's response bytes unmodified,
\* or "success" when the handler returns an empty response.
C16_PlainPassThrough ==
    (call.pc = "done" /\ PlainInputGood) =>
        LET o == HandlerOutcome(call.req.handler, <<>>, call.req.body)
        IN  /\ o.invoked =>
                  call.handlerCalls = << [appid |-> <<>>, data |-> call.req.body] >>
            /\ (~o.panicked /\ o.err = "") =>
                  /\ call.err = <<>>
                  /\ ~call.response.isNil
                  /\ call.response.bytes = ExpectedPlaintext(o.resp.bytes)

C16_Witness ==
    /\ call.pc = "done"
    /\ PlainInputGood
    /\ call.req.handler = "reply"
    /\ call.handlerCalls = << [appid |-> <<>>, data |-> call.req.body] >>
    /\ call.response = Slice(TestResponse)
    /\ call.err = <<>>

-----------------------------------------------------------------------------
(* Claims about the key, the frame and the randomness of the codec         *)

\* the key seed of the receiver plus "=" decodes to exactly 32 bytes
KeyIs32Bytes ==
    LET k == B64Decode(receiver.EncodingAESKey \o <<PadChar>>)
    IN  k.ok /\ Len(k.bytes) = 32

\* C17: encryptResponse and decryptMessage fail with an error, before any
\* cipher operation, whenever the key seed plus "=" does not base64-decode
\* to exactly 32 bytes (invalid base64, or a key of another length).
C17_KeyMustBe32Bytes ==
    ~KeyIs32Bytes =>
        /\ codecPc = "encrypted" => (encOut.err # "" /\ encOut.bytes.isNil)
        /\ codecPc = "decrypted" => (~decOut.panicked /\ decOut.err # "")

\* the plaintext decryptMessage unpads from decIn: nil when the key, the
\* base64 text, the length of the ciphertext or the padding is bad
DecPlain ==
    IF DecKeyUsable /\ DecRaw.ok /\ Len(DecRaw.bytes) >= BlockSize /\ FullBlocks(DecRaw.bytes)
    THEN pkcs7Unpad(CbcDecrypt(B64Decode(receiver.EncodingAESKey \o <<PadChar>>).bytes,
                               SubSeq(DecRaw.bytes, 1, BlockSize),
                               SubSeq(DecRaw.bytes, BlockSize + 1, Len(DecRaw.bytes))))
    ELSE NilSlice

\* the length field of P, bytes [16:20) read as a big-endian unsigned
\* number, is greater than n (a field of 2^31 or more exceeds every n here)
LengthFieldExceeds(P, n) ==
    \/ P[17] >= 128
    \/ P[17] * 16777216 + P[18] * 65536 + P[19] * 256 + P[20] > n

\* the length field of P when it is below 2^31
LengthField(P) == P[17] * 16777216 + P[18] * 65536 + P[19] * 256 + P[20]

\* C18: parsing an unpadded plaintext shorter than 20 bytes fails with the
\* frame-too-short error, and parsing one whose length field exceeds the
\* number of bytes after offset 20 fails with the length-mismatch error;
\* in neither case is a payload returned.
C18_FrameBounds ==
    (codecPc = "decrypted" /\ ~DecPlain.isNil) =>
        LET P == DecPlain.bytes
        IN  /\ Len(P) < 20 =>
                  /\ ~decOut.panicked
                  /\ decOut.err = "decrypted data too short"
                  /\ decOut.message = <<>>
            /\ (Len(P) >= 20 /\ LengthFieldExceeds(P, Len(P) - 20)) =>
                  /\ ~decOut.panicked
                  /\ decOut.err = "content length mismatch"
                  /\ decOut.message = <<>>

\* C19: whenever frame parsing succeeds on plaintext P with length field L,
\* the payload is P[20 : 20+L), the account identifier is P[20+L :],
\* len(payload) = L and 16 + 4 + L <= len(P).
C19_FrameLayout ==
    (codecPc \in {"decrypted", "roundtrip"} /\ ~decOut.panicked /\ decOut.err = "") =>
        /\ ~DecPlain.isNil
        /\ LET P == DecPlain.bytes
           IN  /\ Len(P) >= 20
               /\ P[17] < 128
               /\ LET L == LengthField(P)
                  IN  /\ 16 + 4 + L <= Len(P)
                      /\ Len(decOut.message) = L
                      /\ \A i \in 1..L : decOut.message[i] = P[20 + i]
                      /\ Len(decOut.appid) = Len(P) - 20 - L
                      /\ \A i \in 1..(Len(P) - 20 - L) : decOut.appid[i] = P[20 + L + i]

C19_Witness ==
    /\ codecPc = "decrypted"
    /\ decIn = SealFrame(LengthBytes(3), <<1, 2, 3>>, <<119, 120, 49>>)
    /\ decOut = DecOk(<<1, 2, 3>>, <<119, 120, 49>>)

\* the IV, the ciphertext and the salt of an envelope encryptResponse made
EnvelopeParts(out) ==
    LET raw == B64Decode(UnmarshalEncrypted(receiver.DataType, out.bytes.bytes).Encrypt).bytes
        iv == SubSeq(raw, 1, BlockSize)
        cipherText == SubSeq(raw, BlockSize + 1, Len(raw))
        plain == CbcDecrypt(B64Decode(receiver.EncodingAESKey \o <<PadChar>>).bytes,
                            iv, cipherText)
    IN  [iv |-> iv, cipherText |-> cipherText, salt |-> SubSeq(plain, 1, 16)]

\* C20: two encryptions of the same payload and account id with the same
\* credentials use different salts and IVs and produce different
\* ciphertexts.
C20_EncryptionsDiffer ==
    (codecPc = "encrypted twice" /\ encOut.err = "" /\ encAgain.err = "") =>
        LET first == EnvelopeParts(encOut)
            second == EnvelopeParts(encAgain)
        IN  /\ first.salt # second.salt
            /\ first.iv # second.iv
            /\ first.cipherText # second.cipherText
            /\ encOut.bytes # encAgain.bytes

-----------------------------------------------------------------------------
(* Claims about several calls                                              *)

\* the request of the call is correctly signed for the path it takes
CorrectlySigned ==
    IF SecureRequested THEN CallEnvelope.ok /\ call.req.msg_signature = MsgDigest
    ELSE call.req.signature = PlainDigest

\* C21: no replay protection.  The same correctly signed request (same
\* timestamp, nonce, signature and body) submitted again, any number of
\* times, is accepted each time it was accepted the first time, and the
\* handler is invoked each time with the same arguments as for the
\* original; every resubmission has the outcome of the original.
C21_ReplayAccepted ==
    /\ \A i \in 1..Len(log) : log[i] = log[1]
    /\ (call.pc = "done" /\ log # <<>>) =>
          /\ Outcome(call) = log[1]
          /\ (CorrectlySigned /\ log[1].err = <<>>) => call.err = <<>>

C21_Witness ==
    /\ call.pc = "done"
    /\ Len(log) = MaxReplays
    /\ call.path = "secure"
    /\ CorrectlySigned
    /\ log[1].err = <<>>
    /\ Len(log[1].handlerCalls) = 1
    /\ call.err = <<>>
    /\ call.handlerCalls = log[1].handlerCalls

\* how far into HandlePushMessage a position is
Rank(pc) ==
    CASE pc = "idle" -> 0
      [] pc = "start" -> 1
      [] pc \in {"s_unmarshal", "p_verify"} -> 2
      [] pc \in {"s_verify", "p_parse"} -> 3
      [] pc \in {"s_decrypt", "p_handler"} -> 4
      [] pc = "s_parse" -> 5
      [] pc = "s_handler" -> 6
      [] pc = "s_encrypt" -> 7
      [] OTHER -> 8

\* C22: within one HandlePushMessage call the handler is invoked at most
\* once and no step is re-attempted after it fails: every step moves the
\* call forward, and the first failure ends it with an error.
C22_NoRetry ==
    [][ call' # call =>
          /\ Rank(call'.pc) > Rank(call.pc)
          /\ call'.err # <<>> => call'.pc = "done"
          /\ Len(call'.handlerCalls) <= 1
          /\ Len(call'.steps) <= Len(call.steps) + 2
          /\ \A i, j \in 1..Len(call'.steps) : call'.steps[i] = call'.steps[j] => i = j
      ]_vars

C22_Witness ==
    /\ call.pc = "done"
    /\ call.path = "secure"
    /\ call.req.handler = "error"
    /\ Len(call.handlerCalls) = 1
    /\ call.err = <<"handler failed", "handler error">>
    /\ ~Contains(call.steps, "encrypt")

\* the completed call k returned what it returns when run alone
AsAlone(k) ==
    k.pc = "done" => Outcome(k) = Outcome(RunAlone(receiver, intBits, k.req))

\* C23: concurrent use is safe.  HandlePushMessage never writes a field of
\* the WxPushReceiver, and under every interleaving of two concurrent calls
\* on the same receiver each call returns the result it returns when run
\* alone.
C23_ConcurrentCallsIndependent ==
    /\ [](AsAlone(call) /\ AsAlone(call2))
    /\ [][receiver' = receiver]_vars

\* the first call has returned a response while the second is being decrypted
C23_Witness ==
    /\ call.pc = "done"
    /\ call.err = <<>>
    /\ call.path = "secure"
    /\ call2.pc = "s_decrypt"
    /\ call2.req # call.req

-----------------------------------------------------------------------------
(* Further claims about one call                                           *)

\* the handler of the call was entered and reported an error
HandlerReportedError ==
    /\ call.pc = "done"
    /\ call.req.handler = "error"
    /\ call.handlerCalls # <<>>

\* C24: when the business handler reports an error, on either path,
\* HandlePushMessage returns a non-nil error wrapping it and no response
\* bytes; on the secure path no response is encrypted.
C24_HandlerErrorReturned ==
    HandlerReportedError =>
        /\ call.err = <<"handler failed", "handler error">>
        /\ call.response.isNil
        /\ call.fault = ""
        /\ ~Contains(call.steps, "encrypt")

C24_Witness ==
    /\ HandlerReportedError
    /\ call.path = "plain"
    /\ call.err = <<"handler failed", "handler error">>
    /\ call.response.isNil

-----------------------------------------------------------------------------
(* Claims about DecryptPhoneNumber                                         *)

\* the three arguments decoded
PhoneKey == B64Decode(phoneIn.sessionKey)

PhoneData == B64Decode(phoneIn.encryptedData)

PhoneIV == B64Decode(phoneIn.iv)

\* data does not end in n bytes of value n with 1 <= n <= len(data)
PaddingInvalid(data) ==
    \/ data = <<>>
    \/ /\ data # <<>>
       /\ \/ Last(data) = 0
          \/ Last(data) > Len(data)
          \/ InconsistentTail(data)

\* one of the inputs the claim names as malformed
PhoneInputMalformed ==
    \/ ~PhoneKey.ok
    \/ ~PhoneData.ok
    \/ ~PhoneIV.ok
    \/ Len(PhoneIV.bytes) # BlockSize
    \/ ~FullBlocks(PhoneData.bytes)
    \/ /\ AesKeyOk(PhoneKey.bytes)
       /\ PaddingInvalid(CbcDecrypt(PhoneKey.bytes, PhoneIV.bytes, PhoneData.bytes))

\* the whole of encryptedData decrypted under the IV supplied
PhonePlain == pkcs7Unpad(CbcDecrypt(PhoneKey.bytes, PhoneIV.bytes, PhoneData.bytes))

\* C25: DecryptPhoneNumber uses the separately supplied IV as it is,
\* splitting nothing from the ciphertext, and for every input returns
\* either a decoded record with a nil error or a nil record with a non-nil
\* error: invalid base64 in sessionKey, encryptedData or iv, an IV or
\* ciphertext of wrong length and invalid padding are returned as errors
\* and never escape as a panic.
C25_PhoneDecryptTotal ==
    phonePc = "returned" =>
        /\ ~phoneOut.panicked
        /\ phoneOut.info.isNil <=> phoneOut.err # <<>>
        /\ PhoneInputMalformed => (phoneOut.info.isNil /\ phoneOut.err # <<>>)
        /\ ~phoneOut.info.isNil =>
              /\ ~PhonePlain.isNil
              /\ UnmarshalPhoneInfo(PhonePlain.bytes).ok
              /\ phoneOut.info.PhoneNumber = UnmarshalPhoneInfo(PhonePlain.bytes).PhoneNumber
        /\ (~PhoneInputMalformed /\ AesKeyOk(PhoneKey.bytes)
               /\ UnmarshalPhoneInfo(PhonePlain.bytes).ok)
              => ~phoneOut.info.isNil

\* the platform's ciphertext and IV, sent apart, give the phone number
C25_Witness ==
    /\ phonePc = "returned"
    /\ phoneIn.iv = B64Encode(PlatformIV)
    /\ phoneIn.encryptedData = SealPhone(PlatformIV, pkcs7Pad(PhoneJson, BlockSize))
    /\ phoneOut = PhoneOk(<<49, 51, 56, 48, 48>>)

-----------------------------------------------------------------------------
(* Further claims about signature verification                             *)

\* the parameter tuples of the harness, and those with timestamp and nonce
\* exchanged
SigTuples ==
    LET drawn == {SigParams(t, ts, n, e) :
                     t \in SigTokens, ts \in SigTimestamps,
                     n \in SigNonces, e \in SigEncrypts}
    IN  drawn \cup {SigParams(a.token, a.nonce, a.timestamp, a.encrypt) : a \in drawn}

\* the sorted concatenations that verifySignature and verifyMsgSignature digest
PlainConcat(a) == Join(SortStrings(<<a.token, a.timestamp, a.nonce>>))

MsgConcat(a) == Join(SortStrings(<<a.token, a.timestamp, a.nonce, a.encrypt>>))

\* C26: the result of verifySignature / verifyMsgSignature depends only on
\* the concatenation of the sorted parameter strings: two parameter tuples
\* with the same sorted concatenation (timestamp and nonce exchanged, bytes
\* moved across a field boundary) are accepted for the same signatures.
C26_SameConcatSameResult ==
    sigPc = "verified" =>
        \A b \in SigTuples :
            /\ PlainConcat(b) = PlainConcat(sigArgs) =>
                  verifySignature(receiver, b.token, b.timestamp, b.nonce, sigGiven)
                      = sigOut.plain
            /\ MsgConcat(b) = MsgConcat(sigArgs) =>
                  verifyMsgSignature(receiver, b.token, b.timestamp, b.nonce, b.encrypt,
                                     sigGiven) = sigOut.msg

\* timestamp "12", nonce "3" is accepted for a signature that also verifies
\* for timestamp "1", nonce "23"
C26_Witness ==
    /\ sigPc = "verified"
    /\ sigArgs.timestamp = <<49, 50>> /\ sigArgs.nonce = <<51>>
    /\ sigOut.plain
    /\ verifySignature(receiver, sigArgs.token, <<49>>, <<50, 51>>, sigGiven)
    /\ verifySignature(receiver, sigArgs.token, <<51>>, <<49, 50>>, sigGiven)
    /\ PlainConcat(SigParams(sigArgs.token, <<49>>, <<50, 51>>, sigArgs.encrypt))
          = PlainConcat(sigArgs)

-----------------------------------------------------------------------------
(* Claims about what the dispatcher does not look at                       *)

\* the receiver c with the other SecurityMode
OtherMode(c) ==
    [c EXCEPT !.SecurityMode = IF @ = "secure" THEN "plain" ELSE "secure"]

\* C27: the configured SecurityMode has no effect on HandlePushMessage: two
\* receivers that differ only in SecurityMode return identical results and
\* make identical handler calls for every request, so a receiver configured
\* "secure" processes unencrypted bodies on the plain path when
\* encrypt_type is not "aes".
C27_SecurityModeIgnored ==
    call.pc = "done" =>
        /\ Outcome(call) = Outcome(RunAlone(OtherMode(receiver), intBits, call.req))
        /\ call.path = RunAlone(OtherMode(receiver), intBits, call.req).path
        /\ (call.path # "" /\ ~SecureRequested) => call.path = "plain"

\* a receiver configured "secure" hands an unencrypted body to the handler
C27_Witness ==
    /\ call.pc = "done"
    /\ receiver.SecurityMode = "secure"
    /\ call.req.encrypt_type # AesType
    /\ call.req.body = XmlMsg
    /\ call.path = "plain"
    /\ call.handlerCalls = << [appid |-> <<>>, data |-> XmlMsg] >>
    /\ call.response = Slice(TestResponse)
    /\ call.err = <<>>

\* bodies a sender may put in place of the body of the call
PlainBodies == {<<>>, XmlMsg, JsonMsg, Garbage}

\* the call as it enters handlePlainMessage, with the body b
PlainCallWith(b) ==
    [NewCall([call.req EXCEPT !.body = b]) EXCEPT !.pc = "p_verify", !.path = "plain"]

\* signature verification of handlePlainMessage lets the body b through
PlainVerified(b) == plainVerify(receiver, PlainCallWith(b)).pc = "p_parse"

\* C28: on the plain path the signature does not cover the body: for fixed
\* token, timestamp, nonce and signature the outcome of signature
\* verification is the same for every body, so any parseable body sent
\* with a valid (timestamp, nonce, signature) triple reaches the handler.
C28_PlainSignatureIgnoresBody ==
    call.path = "plain" =>
        /\ \A b \in PlainBodies : PlainVerified(b) = (call.req.signature = PlainDigest)
        /\ (call.pc = "done" /\ PlainInputGood /\ call.req.handler # "nil") =>
              call.handlerCalls = << [appid |-> <<>>, data |-> call.req.body] >>

C28_Witness ==
    /\ call.pc = "done"
    /\ call.path = "plain"
    /\ receiver.DataType = "json"
    /\ call.req.body = JsonMsg
    /\ call.req.handler = "empty"
    /\ call.req.signature = PlainDigest
    /\ PlainVerified(XmlMsg)
    /\ call.handlerCalls = << [appid |-> <<>>, data |-> JsonMsg] >>

\* C29: on the plain path a request with a valid signature and an empty
\* body returns the literal "success" with no error, without parsing
\* anything and without invoking the handler; this covers a request with
\* encrypt_type "aes" and an empty body.
C29_EmptyBodySuccess ==
    (/\ call.pc = "done"
     /\ call.req.fetcher = "ok"
     /\ call.req.body = <<>>
     /\ call.req.signature = PlainDigest) =>
        /\ call.path = "plain"
        /\ call.response = Slice(SuccessBytes)
        /\ call.err = <<>>
        /\ call.fault = ""
        /\ call.steps = <<"verify">>
        /\ call.handlerCalls = <<>>

C29_Witness ==
    /\ call.pc = "done"
    /\ call.req.body = <<>>
    /\ call.req.encrypt_type = PlainType
    /\ call.req.handler = "panic"
    /\ call.req.signature = PlainDigest
    /\ call.response = Slice(SuccessBytes)
    /\ call.err = <<>>
    /\ call.handlerCalls = <<>>

-----------------------------------------------------------------------------
(* Claims about the access-token cache                                     *)

\* the entry under the client's key comes from a response with errcode 0
\* and carries its expires_in less 300 seconds
CacheFromIssued ==
    cache # NoEntry =>
        \E i \in issued : cache = [value |-> i.token, expire |-> i.expires_in - 300]

\* a GetAccessToken call is made in this step
TokenCallMade == tokCalls' = tokCalls + 1

\* C30: after any sequence of GetAccessToken calls the cache holds under
\* the client's key only tokens taken from a token response with errcode 0,
\* written with expiry expires_in - 300 seconds; a call that finds a
\* non-empty cached value returns it without contacting the token
\* endpoint; an error response or a failed cache write never changes what
\* a later cache hit returns.
C30_TokenCache ==
    /\ []CacheFromIssued
    /\ [][ TokenCallMade =>
              /\ (client.hasCache /\ cache.value # <<>>) =>
                    /\ tokLast'.kind = "hit"
                    /\ tokLast'.token = cache.value
                    /\ tokLast'.err = ""
                    /\ ~tokLast'.contacted
                    /\ cache' = cache
                    /\ issued' = issued
              /\ (tokLast'.err # "" \/ tokLast'.setFailed) => cache' = cache
              /\ tokLast'.err # "" => tokLast'.token = <<>>
      ]_vars

\* a token was fetched and cached, the entry expired, a later fetch was
\* cached in its place, and the last call was a hit returning that token
C30_Witness ==
    /\ tokCalls = MaxTokenCalls
    /\ client.hasCache
    /\ tokLast.kind = "hit"
    /\ tokLast.token = <<66>>
    /\ cache = [value |-> <<66>>, expire |-> 6900]
    /\ [token |-> <<65>>, expires_in |-> 7200] \in issued

=============================================================================
